---- MODULE Spec2Model ----
(***************************************************************************)
(* State-machine model of the data-quality layer of the e-commerce data    *)
(* pipeline: the DataQualityChecker of src/quality/data_quality_checks.py  *)
(* driven by its main(), and the connection handling of the helpers that   *)
(* open one store connection per unit of work.                             *)
(***************************************************************************)
EXTENDS Integers, Sequences, FiniteSets, TLC

(***************************************************************************)
(* Bounds of the model.                                                    *)
(***************************************************************************)
\* Largest scalar a check query returns (a violation count).
MaxCount == 3
\* Largest number of check queries whose scalar is not 0 in one store.
MaxDirty == 1
\* Largest number of run_all_checks invocations on one checker object.
MaxRuns == 2
\* Connections the store accepts at a time; a further connect is refused.
MaxConnections == 3
\* Longest data_list handed to execute_batch_insert.
MaxRows == 3
\* Largest batch_size handed to execute_batch_insert.
MaxBatch == 2
\* Rows the target table of execute_batch_insert holds at most.
MaxTableRows == 4

(***************************************************************************)
(* The check catalog: the run_check calls of the four batteries, in the    *)
(* order of the source.  expected and severity are the call's arguments    *)
(* (severity defaults to "ERROR").                                         *)
(***************************************************************************)
Check(name, sev) == [check_name |-> name, expected |-> 0, severity |-> sev]

Completeness ==
    << Check("Customers: No NULL emails", "ERROR"),
       Check("Customers: No NULL customer_ids", "ERROR"),
       Check("Products: No NULL product names", "ERROR"),
       Check("Products: No NULL prices", "ERROR"),
       Check("Orders: No NULL order_ids", "ERROR"),
       Check("Orders: No NULL total_amounts", "ERROR") >>

Validity ==
    << Check("Customers: Age between 18-120", "ERROR"),
       Check("Products: Price > 0", "ERROR"),
       Check("Orders: Total amount > 0", "ERROR"),
       Check("Orders: Quantity > 0", "ERROR"),
       Check("Customers: Valid email format", "ERROR"),
       Check("Orders: No future order dates", "ERROR") >>

Consistency ==
    << Check("Orders: All customer_ids exist in customers", "ERROR"),
       Check("Orders: All product_ids exist in products", "ERROR"),
       Check("Orders: Quantity * Price = Total (within 1%)", "WARNING"),
       Check("Customer Summary: Row count matches active customers", "WARNING") >>

Uniqueness ==
    << Check("Customers: No duplicate customer_ids", "ERROR"),
       Check("Products: No duplicate product_ids", "ERROR"),
       Check("Orders: No duplicate order_ids", "ERROR"),
       Check("Customers: No duplicate emails", "ERROR") >>

\* The battery a program position runs.
Battery(p) ==
    CASE p = "check_completeness" -> Completeness
      [] p = "check_validity" -> Validity
      [] p = "check_consistency" -> Consistency
      [] p = "check_uniqueness" -> Uniqueness

BatteryPcs ==
    {"check_completeness", "check_validity", "check_consistency", "check_uniqueness"}

\* run_all_checks: the position that follows a finished battery.
NextBatterySwapped(p) ==
    CASE p = "check_completeness" -> "check_consistency"
      [] p = "check_consistency" -> "check_validity"
      [] p = "check_validity" -> "check_uniqueness"
      [] p = "check_uniqueness" -> "print_summary"

NextBattery(p) ==
    CASE p = "check_completeness" -> "check_validity"
      [] p = "check_validity" -> "check_consistency"
      [] p = "check_consistency" -> "check_uniqueness"
      [] p = "check_uniqueness" -> "print_summary"

\* Every query of the catalog, numbered in execution order; the store answers
\* query q with the scalar store[q].
AllChecks == Completeness \o Validity \o Consistency \o Uniqueness

NumChecks == Len(AllChecks)

\* The number of the first query of a battery, minus one.
Offset(p) ==
    CASE p = "check_completeness" -> 0
      [] p = "check_validity" -> Len(Completeness)
      [] p = "check_consistency" -> Len(Completeness) + Len(Validity)
      [] p = "check_uniqueness" -> Len(Completeness) + Len(Validity) + Len(Consistency)

(***************************************************************************)
(* The external store, as the checker sees it: one scalar per query.  All  *)
(* queries are counts or absolute differences, so scalars are naturals.    *)
(***************************************************************************)
\* The subsets of 1..n with at most k elements.
RECURSIVE DirtySets(_, _)
DirtySets(k, n) ==
    IF k = 0 THEN {{}}
    ELSE LET S == DirtySets(k - 1, n)
         IN  S \cup {D \cup {q} : D \in S, q \in 1..n}

Stores ==
    UNION { { [q \in 1..NumChecks |-> IF q \in D THEN f[q] ELSE 0] :
                f \in [D -> 1..MaxCount] } : D \in DirtySets(MaxDirty, NumChecks) }

CleanStore == [q \in 1..NumChecks |-> 0]

VARIABLES
    store,      \* the scalar each check query returns
    conn,       \* DatabaseConnection.conn: "none", "open", "aborted", "broken", "closed"
    pc,         \* position of main() / run_all_checks
    idx,        \* checks already run in the current battery
    results,    \* DataQualityChecker.results
    passed,     \* DataQualityChecker.passed
    failed,     \* DataQualityChecker.failed
    ret,        \* value returned by the last run_check: "True", "False" ("none" before the first)
    summaries,  \* the summaries _print_summary printed, in order
    saved,      \* outcome of _save_results: "none", "written", "failed"
    returns,    \* the lists run_all_checks returned, in order
    runs,       \* run_all_checks invocations started on the checker object
    exit_status \* how main() ended: "running", "returned" (exit code 0), "raised" (nonzero)

checkerVars ==
    << store, conn, pc, idx, results, passed, failed, ret, summaries, saved,
       returns, runs, exit_status >>

VARIABLES
    openConns,  \* store connections opened by the helpers and not closed
    unit,       \* the helper that ran last ("none" before the first)
    outcome,    \* how it ended: [kind |-> "returned" or "raised", value |-> ...]
    tableRows   \* committed rows of the table execute_batch_insert fills

connVars == << openConns, unit, outcome, tableRows >>

VARIABLES
    scoring,    \* the latest scoring call: [by, input, score, grade]
    previous    \* the outcome of the scoring call before it: [by, score, grade]

scoreVars == << scoring, previous >>

VARIABLES
    dagStore,   \* the count each query of the daily DAG returns
    task,       \* state of each task of the daily DAG run: "none", "success", "failed"
    xcom        \* the values the tasks pushed: << >> for none, << v >> for v

dagVars == << dagStore, task, xcom >>

VARIABLES
    df,         \* the frame handed to z_score_outliers: [total_amount, z_score]
    threshold,  \* the threshold argument in tenths: << >> when omitted, << t >> otherwise
    outliers    \* what z_score_outliers returned: [called, rows]

zVars == << df, threshold, outliers >>

VARIABLES
    anomalyStore, \* what the queries of the anomaly detectors find: one count each
    anomalies,    \* AnomalyDetector.anomalies
    nextDetector, \* position of run_all_detections in Detectors (6: the summary)
    ran,          \* the detectors run_all_detections started, in order
    detection,    \* how run_all_detections ended: "running", "returned", "raised"
    detected      \* what it returned: << >> for nothing, << list >> for a list

anomalyVars ==
    << anomalyStore, anomalies, nextDetector, ran, detection, detected >>

VARIABLES
    clock,      \* the wall clock, in instants (MaxSubSecond instants per second)
    saveRuns,   \* runs that persisted results so far
    files,      \* the files of data/processed: [path, run] for the run that wrote it last
    lost        \* the runs whose file was replaced by a later run

saveVars == << clock, saveRuns, files, lost >>

VARIABLES
    generated   \* the batches the runs of the data generator wrote, in order

genVars == << generated >>

VARIABLES
    refreshConn,    \* the connection of refresh_all_aggregates: "none", "open", "closed"
    nextTable,      \* position of its loop in SQL_QUERIES
    success_count,  \* its counter of refreshed tables
    fail_count,     \* its counter of failed refreshes
    aggregates,     \* each aggregate table: "stale" or "fresh" (rebuilt and committed)
    refresh_ret     \* what refresh_all_aggregates returned: "none", "True", "False"

refreshVars ==
    << refreshConn, nextTable, success_count, fail_count, aggregates, refresh_ret >>

VARIABLES
    table_name,     \* the table load_csv_to_table fills
    csv_file,       \* the rows of the CSV, in file order: [id, data]
    target,         \* the committed content of the table: id -> data or "absent"
    txn,            \* the content inside the open transaction: << >> when none is open
    chunk_num,      \* chunks inserted by the call in progress
    existing_count, \* the count the call in progress took before loading
    before,         \* the committed content when the call in progress began
    loads           \* the calls that ended: [how, added, before, after]

loadVars ==
    << table_name, csv_file, target, txn, chunk_num, existing_count, before, loads >>

VARIABLES
    reportStore,    \* what the queries of the report detectors find
    reportPc,       \* position of generate_html
    allIssues,      \* all_issues of generate_html: [detector, check, severity]
    high_value,     \* anomalies of generate_html: the rows get_high_value_anomalies returned
    lastRead,       \* the detector that ran last and the checks whose count it read
    html            \* how generate_html ended: [status, score, grade]

reportVars == << reportStore, reportPc, allIssues, high_value, lastRead, html >>

\* The state of the units outside the quality checks and the daily DAG.
unitVars == << anomalyVars, saveVars, genVars, refreshVars, loadVars, reportVars >>

\* The state of the units other than the checker and the connection helpers.
otherVars == << scoreVars, dagVars, zVars, unitVars >>

vars == << checkerVars, connVars, otherVars >>

(***************************************************************************)
(* DatabaseConnection.execute_query on the shared connection.  psycopg2    *)
(* opens a transaction with the first statement; the code never commits,   *)
(* rolls back or sets autocommit.  A statement the server rejects leaves   *)
(* the transaction aborted, a lost link leaves the connection broken, and  *)
(* every later statement on such a connection raises.                      *)
(***************************************************************************)
Raised(e, c) == [raised |-> TRUE, error |-> e, conn |-> c]

ExecuteQuery(q) ==
    CASE conn = "open" ->
            { [raised |-> FALSE, value |-> store[q], conn |-> "open"],
              Raised("ProgrammingError", "aborted"),
              Raised("OperationalError", "broken") }
      [] conn = "aborted" -> { Raised("InFailedSqlTransaction", "aborted") }
      [] conn = "none" -> { Raised("RuntimeError", "none") }
      [] OTHER -> { Raised("InterfaceError", conn) }

\* The errors of a query that failed by itself, not because of an earlier one.
RootErrors == {"ProgrammingError", "OperationalError"}

\* How a Python bool is shown.
PyBool(b) == IF b THEN "True" ELSE "False"

\* run_check: passed = (result == expected)
CheckPassedAtLeast(result, expected) == result >= expected

CheckPassed(result, expected) == result = expected

PassFailEntry(c, result) ==
    [check_name |-> c.check_name, severity |-> c.severity,
     status |-> IF CheckPassed(result, c.expected) THEN "PASS" ELSE "FAIL",
     expected |-> c.expected, actual |-> result]

ErrorEntry(c, e) ==
    [check_name |-> c.check_name, severity |-> c.severity,
     status |-> "ERROR", error |-> e]

\* The position after one more check of battery p.
AfterCheck(p, i) ==
    IF i + 1 = Len(Battery(p)) THEN [pc |-> NextBattery(p), idx |-> 0]
    ELSE [pc |-> p, idx |-> i + 1]

(***************************************************************************)
(* run_check(check_name, query, expected, severity), called for query q of *)
(* battery p.                                                              *)
(***************************************************************************)
\* Variant: the except branch re-raises; run_all_checks and main() re-raise
\* too, and main()'s finally closes the connection.
RunCheckReraise(p, q) ==
    \E o \in ExecuteQuery(q) :
        IF o.raised
        THEN /\ conn' = "closed"
             /\ pc' = "exited"
             /\ exit_status' = "raised"
             /\ UNCHANGED << idx, results, passed, failed, ret >>
        ELSE /\ conn' = o.conn
             /\ results' = Append(results, PassFailEntry(AllChecks[q], o.value))
             /\ passed' = IF CheckPassed(o.value, AllChecks[q].expected)
                          THEN passed + 1 ELSE passed
             /\ failed' = IF CheckPassed(o.value, AllChecks[q].expected)
                          THEN failed ELSE failed + 1
             /\ ret' = PyBool(CheckPassed(o.value, AllChecks[q].expected))
             /\ pc' = AfterCheck(p, idx).pc
             /\ idx' = AfterCheck(p, idx).idx
             /\ UNCHANGED exit_status

\* Variant: the except branch counts the failure but records no entry.
RunCheckDropError(p, q) ==
    \E o \in ExecuteQuery(q) :
        /\ conn' = o.conn
        /\ IF o.raised
           THEN /\ failed' = failed + 1
                /\ UNCHANGED << results, passed >>
                /\ ret' = "False"
           ELSE /\ results' = Append(results, PassFailEntry(AllChecks[q], o.value))
                /\ passed' = IF CheckPassed(o.value, AllChecks[q].expected)
                             THEN passed + 1 ELSE passed
                /\ failed' = IF CheckPassed(o.value, AllChecks[q].expected)
                             THEN failed ELSE failed + 1
                /\ ret' = PyBool(CheckPassed(o.value, AllChecks[q].expected))
        /\ pc' = AfterCheck(p, idx).pc
        /\ idx' = AfterCheck(p, idx).idx
        /\ UNCHANGED exit_status

\* Variant: the except branch forgets to count the failure.
RunCheckNoCount(p, q) ==
    \E o \in ExecuteQuery(q) :
        /\ conn' = o.conn
        /\ IF o.raised
           THEN /\ results' = Append(results, ErrorEntry(AllChecks[q], o.error))
                /\ UNCHANGED << passed, failed >>
                /\ ret' = "False"
           ELSE /\ results' = Append(results, PassFailEntry(AllChecks[q], o.value))
                /\ passed' = IF CheckPassed(o.value, AllChecks[q].expected)
                             THEN passed + 1 ELSE passed
                /\ failed' = IF CheckPassed(o.value, AllChecks[q].expected)
                             THEN failed ELSE failed + 1
                /\ ret' = PyBool(CheckPassed(o.value, AllChecks[q].expected))
        /\ pc' = AfterCheck(p, idx).pc
        /\ idx' = AfterCheck(p, idx).idx
        /\ UNCHANGED exit_status

RunCheck(p, q) ==
    \E o \in ExecuteQuery(q) :
        /\ conn' = o.conn
        /\ IF o.raised
           THEN /\ failed' = failed + 1
                /\ results' = Append(results, ErrorEntry(AllChecks[q], o.error))
                /\ passed' = passed
                /\ ret' = "False"
           ELSE /\ results' = Append(results, PassFailEntry(AllChecks[q], o.value))
                /\ passed' = IF CheckPassed(o.value, AllChecks[q].expected)
                             THEN passed + 1 ELSE passed
                /\ failed' = IF CheckPassed(o.value, AllChecks[q].expected)
                             THEN failed ELSE failed + 1
                /\ ret' = PyBool(CheckPassed(o.value, AllChecks[q].expected))
        /\ pc' = AfterCheck(p, idx).pc
        /\ idx' = AfterCheck(p, idx).idx
        /\ UNCHANGED exit_status

(***************************************************************************)
(* main(): checker = DataQualityChecker().  __init__ opens the connection  *)
(* (DatabaseConnection._connect re-raises every failure) and then sets the *)
(* empty result log and the counters.  When it raises, main() has no       *)
(* checker to close and re-raises.                                         *)
(***************************************************************************)
\* Variant: _connect swallows the failure and the run goes on unconnected.
DataQualityCheckerInitSwallow ==
    /\ pc = "main"
    /\ \E ok \in BOOLEAN :
        /\ conn' = IF ok THEN "open" ELSE "none"
        /\ pc' = "check_completeness"
        /\ runs' = 1
        /\ results' = << >>
        /\ passed' = 0
        /\ failed' = 0
        /\ idx' = 0
        /\ UNCHANGED exit_status
    /\ UNCHANGED << store, ret, summaries, saved, returns >>
    /\ UNCHANGED connVars
    /\ UNCHANGED otherVars

DataQualityCheckerInit ==
    /\ pc = "main"
    /\ \E ok \in BOOLEAN :
        IF ok
        THEN /\ conn' = "open"
             /\ results' = << >>
             /\ passed' = 0
             /\ failed' = 0
             /\ pc' = "check_completeness"
             /\ idx' = 0
             /\ runs' = 1
             /\ UNCHANGED exit_status
        ELSE /\ pc' = "exited"
             /\ exit_status' = "raised"
             /\ UNCHANGED << conn, results, passed, failed, idx, runs >>
    /\ UNCHANGED << store, ret, summaries, saved, returns >>
    /\ UNCHANGED connVars
    /\ UNCHANGED otherVars

(***************************************************************************)
(* The four batteries: one step is one run_check call.                     *)
(***************************************************************************)
CheckCompleteness ==
    /\ pc = "check_completeness"
    /\ RunCheck(pc, Offset(pc) + idx + 1)
    /\ UNCHANGED << store, summaries, saved, returns, runs >>
    /\ UNCHANGED connVars
    /\ UNCHANGED otherVars

CheckValidity ==
    /\ pc = "check_validity"
    /\ RunCheck(pc, Offset(pc) + idx + 1)
    /\ UNCHANGED << store, summaries, saved, returns, runs >>
    /\ UNCHANGED connVars
    /\ UNCHANGED otherVars

CheckConsistency ==
    /\ pc = "check_consistency"
    /\ RunCheck(pc, Offset(pc) + idx + 1)
    /\ UNCHANGED << store, summaries, saved, returns, runs >>
    /\ UNCHANGED connVars
    /\ UNCHANGED otherVars

CheckUniqueness ==
    /\ pc = "check_uniqueness"
    /\ RunCheck(pc, Offset(pc) + idx + 1)
    /\ UNCHANGED << store, summaries, saved, returns, runs >>
    /\ UNCHANGED connVars
    /\ UNCHANGED otherVars

(***************************************************************************)
(* _print_summary: total, pass rate and grade from the two counters.  The  *)
(* pass rate is passed / total * 100; the cutoffs are compared on          *)
(* passed * 100 against cutoff * total.                                    *)
(***************************************************************************)
Grade(p, f) ==
    LET total == p + f
    IN  IF total = 0 THEN "F (Needs Attention)"
        ELSE IF p * 100 = 100 * total THEN "A+ (Excellent)"
        ELSE IF p * 100 >= 95 * total THEN "A (Very Good)"
        ELSE IF p * 100 >= 90 * total THEN "B (Good)"
        ELSE IF p * 100 >= 80 * total THEN "C (Acceptable)"
        ELSE "F (Needs Attention)"

PrintSummary ==
    /\ pc = "print_summary"
    /\ summaries' = Append(summaries,
                           [total |-> passed + failed, passed |-> passed,
                            failed |-> failed, grade |-> Grade(passed, failed)])
    /\ pc' = "save_results"
    /\ UNCHANGED << store, conn, idx, results, passed, failed, ret, saved,
                    returns, runs, exit_status >>
    /\ UNCHANGED connVars
    /\ UNCHANGED otherVars

(***************************************************************************)
(* A variant of _save_results without the except clause: a failed write    *)
(* propagates out of run_all_checks into main(), whose finally clause      *)
(* closes the connection.                                                  *)
(***************************************************************************)
SaveResultsPropagate ==
    /\ pc = "save_results"
    /\ \E ok \in BOOLEAN :
          IF ok
          THEN /\ saved' = "written"
               /\ returns' = Append(returns, results)
               /\ pc' = "returned"
               /\ UNCHANGED << conn, exit_status >>
          ELSE /\ saved' = "failed"
               /\ conn' = "closed"
               /\ exit_status' = "raised"
               /\ pc' = "exited"
               /\ UNCHANGED returns
    /\ UNCHANGED << store, idx, results, passed, failed, ret, summaries, runs >>
    /\ UNCHANGED connVars
    /\ UNCHANGED otherVars

(***************************************************************************)
(* _save_results writes the result file; a failure is logged and           *)
(* swallowed.  run_all_checks then returns self.results.                   *)
(***************************************************************************)
SaveResults ==
    /\ pc = "save_results"
    /\ \E ok \in BOOLEAN : saved' = IF ok THEN "written" ELSE "failed"
    /\ returns' = Append(returns, results)
    /\ pc' = "returned"
    /\ UNCHANGED << store, conn, idx, results, passed, failed, ret, summaries,
                    runs, exit_status >>
    /\ UNCHANGED connVars
    /\ UNCHANGED otherVars

(***************************************************************************)
(* main() after run_all_checks returned: the finally clause closes the     *)
(* connection and main() returns normally.                                 *)
(***************************************************************************)
MainFinally ==
    /\ pc = "returned"
    /\ conn' = "closed"
    /\ exit_status' = "returned"
    /\ pc' = "exited"
    /\ UNCHANGED << store, idx, results, passed, failed, ret, summaries, saved,
                    returns, runs >>
    /\ UNCHANGED connVars
    /\ UNCHANGED otherVars

(***************************************************************************)
(* A caller that invokes run_all_checks again on the same checker object:  *)
(* the method starts with check_completeness and resets nothing.           *)
(***************************************************************************)
RunAllChecksAgain ==
    /\ pc = "returned"
    /\ runs < MaxRuns
    /\ runs' = runs + 1
    /\ pc' = "check_completeness"
    /\ idx' = 0
    /\ UNCHANGED << store, conn, results, passed, failed, ret, summaries, saved,
                    returns, exit_status >>
    /\ UNCHANGED connVars
    /\ UNCHANGED otherVars

(***************************************************************************)
(* The helpers that open one connection per unit of work.  Each action is  *)
(* one whole call; openConns counts the connections a call opened and did  *)
(* not close.                                                              *)
(***************************************************************************)
\* get_connection: psycopg2.connect succeeds or raises; the store refuses a
\* connection when it has none left.
GetConnection == IF openConns < MaxConnections THEN {TRUE, FALSE} ELSE {FALSE}

ReturnedValue(v) == [kind |-> "returned", value |-> v]

RaisedError == [kind |-> "raised"]

\* db_connector.execute_query: closes on the success path and in the except
\* branch (if conn).
DbExecuteQuery ==
    /\ \E c \in GetConnection, ok \in BOOLEAN :
        /\ outcome' = IF c /\ ok THEN ReturnedValue("rows") ELSE RaisedError
        /\ openConns' = IF c THEN (openConns + 1) - 1 ELSE openConns
    /\ unit' = "execute_query"
    /\ UNCHANGED tableRows
    /\ UNCHANGED checkerVars
    /\ UNCHANGED otherVars

\* db_connector.execute_batch_insert(table, data_list, batch_size): n rows,
\* batches of bs rows, each batch committed after its last row; failAt is
\* the row whose INSERT raises (0: none).  An empty data_list returns 0
\* right after get_connection.
ExecuteBatchInsert ==
    /\ \E c \in GetConnection, n \in 0..MaxRows, bs \in 1..MaxBatch :
        \E failAt \in 0..n :
            /\ tableRows + n <= MaxTableRows
            /\ IF ~c
               THEN /\ outcome' = RaisedError
                    /\ UNCHANGED << openConns, tableRows >>
               ELSE IF n = 0
               THEN /\ outcome' = ReturnedValue(0)
                    /\ openConns' = openConns + 1
                    /\ UNCHANGED tableRows
               ELSE IF failAt # 0
               THEN /\ outcome' = RaisedError
                    /\ tableRows' = tableRows + bs * ((failAt - 1) \div bs)
                    /\ openConns' = (openConns + 1) - 1
               ELSE /\ outcome' = ReturnedValue(n)
                    /\ tableRows' = tableRows + n
                    /\ openConns' = (openConns + 1) - 1
    /\ unit' = "execute_batch_insert"
    /\ UNCHANGED checkerVars
    /\ UNCHANGED otherVars

\* db_connector.table_exists: closes on the success path only; the except
\* branch logs and re-raises.
TableExists ==
    /\ \E c \in GetConnection, ok \in BOOLEAN, exists \in BOOLEAN :
        IF ~c
        THEN /\ outcome' = RaisedError
             /\ UNCHANGED openConns
        ELSE IF ok
        THEN /\ outcome' = ReturnedValue(exists)
             /\ openConns' = (openConns + 1) - 1
        ELSE /\ outcome' = RaisedError
             /\ openConns' = openConns + 1
    /\ unit' = "table_exists"
    /\ UNCHANGED tableRows
    /\ UNCHANGED checkerVars
    /\ UNCHANGED otherVars

\* db_connector.get_row_count: as table_exists.
GetRowCount ==
    /\ \E c \in GetConnection, ok \in BOOLEAN :
        IF ~c
        THEN /\ outcome' = RaisedError
             /\ UNCHANGED openConns
        ELSE IF ok
        THEN /\ outcome' = ReturnedValue(tableRows)
             /\ openConns' = (openConns + 1) - 1
        ELSE /\ outcome' = RaisedError
             /\ openConns' = openConns + 1
    /\ unit' = "get_row_count"
    /\ UNCHANGED tableRows
    /\ UNCHANGED checkerVars
    /\ UNCHANGED otherVars

\* QualityReportGenerator.detect_null_values: the (table, column) pairs.
NullChecks ==
    << [table |-> "customers", column |-> "email"],
       [table |-> "customers", column |-> "first_name"],
       [table |-> "customers", column |-> "last_name"],
       [table |-> "products", column |-> "product_name"],
       [table |-> "products", column |-> "price"],
       [table |-> "orders", column |-> "customer_id"],
       [table |-> "orders", column |-> "total_amount"] >>

\* The issues of the first lim pairs, in order: the pairs whose null count
\* is > 0.
IssuesUpTo(lim, nulls) ==
    SelectSeq([i \in 1..lim |-> i], LAMBDA i : i \in nulls)

\* detect_null_values: nulls are the pairs with a null count > 0, failAt the
\* pair whose query raises (0: none).  Every exception is logged and
\* swallowed, and the issues found so far are returned; cursor.close() and
\* conn.close() are the last statements of the try block.
DetectNullValues ==
    /\ \E c \in GetConnection, nulls \in DirtySets(MaxDirty, Len(NullChecks)) :
        \E failAt \in 0..Len(NullChecks) :
            IF ~c
            THEN /\ outcome' = ReturnedValue(<< >>)
                 /\ UNCHANGED openConns
            ELSE IF failAt # 0
            THEN /\ outcome' = ReturnedValue(IssuesUpTo(failAt - 1, nulls))
                 /\ openConns' = openConns + 1
            ELSE /\ outcome' = ReturnedValue(IssuesUpTo(Len(NullChecks), nulls))
                 /\ openConns' = (openConns + 1) - 1
    /\ unit' = "detect_null_values"
    /\ UNCHANGED tableRows
    /\ UNCHANGED checkerVars
    /\ UNCHANGED otherVars

(***************************************************************************)
(* The scoring units.  A score is a float in the code; here it is the      *)
(* exact fraction num / den (den > 0), and a comparison with a cutoff is   *)
(* made on num against cutoff * den.  For the operands that occur (sums of *)
(* 95.0, 99.0 and 100.0 divided by 4, 100.0 less multiples of 5 and 2, and *)
(* passed / total * 100 with total up to 220) the float comparisons with   *)
(* 80, 90, 95, 99 and 100 give the same answers.                           *)
(***************************************************************************)
MaxSummaryRuns == 5     \* run_all_checks invocations behind a summary
MaxFailed == 5          \* failed checks behind a summary
MaxNullIssues == 1      \* null issues in a report
MaxCritical == 21       \* critical issues handed to calculate_quality_score
MaxWarning == 1         \* warning issues handed to calculate_quality_score

Score(n, d) == [num |-> n, den |-> d]

AtLeast(s, cutoff) == s.num >= cutoff * s.den

\* _print_summary: pass_rate = (passed / total * 100) if total > 0 else 0
PassRate(p, f) == IF p + f > 0 THEN Score(p * 100, p + f) ELSE Score(0, 1)

\* The counters a summary can be printed from: run_all_checks ran the
\* whole catalog one or more times on the checker object.
SummaryCounters ==
    { << k * NumChecks - f, f >> : k \in 1..MaxSummaryRuns, f \in 0..MaxFailed }

\* The grade of aggregate_quality_score with the two top labels exchanged.
DailyGradeSwapped(overall_score) ==
    IF AtLeast(overall_score, 99) THEN "A (Very Good)"
    ELSE IF AtLeast(overall_score, 95) THEN "A+ (Excellent)"
    ELSE IF AtLeast(overall_score, 90) THEN "B (Good)"
    ELSE IF AtLeast(overall_score, 80) THEN "C (Acceptable)"
    ELSE "F (Needs Attention)"

\* aggregate_quality_score, the grade of the daily DAG.
DailyGrade(overall_score) ==
    IF AtLeast(overall_score, 99) THEN "A+ (Excellent)"
    ELSE IF AtLeast(overall_score, 95) THEN "A (Very Good)"
    ELSE IF AtLeast(overall_score, 90) THEN "B (Good)"
    ELSE IF AtLeast(overall_score, 80) THEN "C (Acceptable)"
    ELSE "F (Needs Attention)"

\* stage_4_quality_checks, the grade of the weekly DAG.
WeeklyGrade(overall_score) ==
    IF AtLeast(overall_score, 99) THEN "A+ (Excellent)"
    ELSE IF AtLeast(overall_score, 95) THEN "A (Very Good)"
    ELSE IF AtLeast(overall_score, 90) THEN "B (Good)"
    ELSE "C (Acceptable)"

\* generate_html, the grade of the HTML report.
HtmlGrade(quality_score) ==
    IF AtLeast(quality_score, 95) THEN "A+ (Excellent)"
    ELSE IF AtLeast(quality_score, 90) THEN "A (Very Good)"
    ELSE IF AtLeast(quality_score, 80) THEN "B (Good)"
    ELSE "C (Needs Attention)"

\* ti.xcom_pull(...) or 100.0: the pulled value is << >> when no score was
\* pushed and << v >> otherwise; None and 0.0 are falsy.
XcomPullOr100(pulled) ==
    IF pulled = << >> THEN 100
    ELSE IF pulled[1] = 0 THEN 100
    ELSE pulled[1]

\* aggregate_quality_score taking the mean of the three pulled scores only.
AggregateQualityScoreNoUniqueness(completeness_score, validity_score, consistency_score) ==
    LET completeness == XcomPullOr100(completeness_score)
        validity == XcomPullOr100(validity_score)
        consistency == XcomPullOr100(consistency_score)
        overall_score == Score(completeness + validity + consistency, 3)
    IN  [overall_score |-> overall_score, grade |-> DailyGrade(overall_score),
         completeness |-> completeness, validity |-> validity,
         consistency |-> consistency, uniqueness |-> 100]

\* aggregate_quality_score: the dict it returns.
AggregateQualityScore(completeness_score, validity_score, consistency_score) ==
    LET completeness == XcomPullOr100(completeness_score)
        validity == XcomPullOr100(validity_score)
        consistency == XcomPullOr100(consistency_score)
        uniqueness == 100
        overall_score == Score(completeness + validity + consistency + uniqueness, 4)
    IN  [overall_score |-> overall_score, grade |-> DailyGrade(overall_score),
         completeness |-> completeness, validity |-> validity,
         consistency |-> consistency, uniqueness |-> uniqueness]

\* stage_4_quality_checks: the four scores are literals.
QualityScores == << 100, 100, 99, 100 >>

RECURSIVE SumSeq(_)
SumSeq(seq) == IF seq = << >> THEN 0 ELSE seq[1] + SumSeq(Tail(seq))

\* The loop of calculate_quality_score over the severities of the issues.
\* A severity is "CRITICAL" for the string that holds the red mark and
\* "WARNING" for the one that holds the yellow mark.
RECURSIVE Deduct(_, _)
Deduct(base_score, issues) ==
    IF issues = << >> THEN base_score
    ELSE IF issues[1] = "CRITICAL" THEN Deduct(base_score - 5, Tail(issues))
    ELSE IF issues[1] = "WARNING" THEN Deduct(base_score - 2, Tail(issues))
    ELSE Deduct(base_score, Tail(issues))

Max(a, b) == IF a >= b THEN a ELSE b

\* calculate_quality_score without the max(0, ...).
CalculateQualityScoreUnclamped(issues) == Deduct(100, issues)

CalculateQualityScore(issues) == Max(0, Deduct(100, issues))

Repeat(x, n) == [i \in 1..n |-> x]

\* The severities of the issues detect_duplicates and
\* detect_data_quality_issues can report, in the order they are tested.
DuplicateChecks == << "CRITICAL", "CRITICAL", "CRITICAL" >>

DataQualityRules == << "CRITICAL", "CRITICAL", "WARNING", "CRITICAL" >>

\* The sub-sequence of seq at the positions in keep.
Found(seq, keep) ==
    LET pos == SelectSeq([i \in 1..Len(seq) |-> i], LAMBDA i : i \in keep)
    IN  [j \in 1..Len(pos) |-> seq[pos[j]]]

\* The severities of the null issues of a report: one per column with
\* nulls, critical above 100 nulls and a warning otherwise.
NullIssueLists ==
    UNION { [1..n -> {"CRITICAL", "WARNING"}] : n \in 0..MaxNullIssues }

\* all_issues of generate_html: null issues, then duplicates, then rules.
ReportIssueLists ==
    { n \o Found(DuplicateChecks, d) \o Found(DataQualityRules, r) :
        n \in NullIssueLists,
        d \in SUBSET (1..Len(DuplicateChecks)),
        r \in SUBSET (1..Len(DataQualityRules)) }

\* The lists handed to calculate_quality_score directly.
IssueLists ==
    { Repeat("CRITICAL", c) \o Repeat("WARNING", w) :
        c \in 0..MaxCritical, w \in 0..MaxWarning }

NoScoring == [by |-> "none", input |-> << >>, score |-> Score(0, 1), grade |-> "none"]

Outcome(call) == [by |-> call.by, score |-> call.score, grade |-> call.grade]

\* _print_summary on a checker whose counters are passed and failed.
PrintSummaryCall ==
    /\ \E pf \in SummaryCounters :
        scoring' = [by |-> "_print_summary", input |-> pf,
                    score |-> PassRate(pf[1], pf[2]),
                    grade |-> Grade(pf[1], pf[2])]
    /\ previous' = Outcome(scoring)
    /\ UNCHANGED << checkerVars, connVars, dagVars, zVars, unitVars >>

\* aggregate_quality_score with the scores the three tasks can have pushed.
AggregateQualityScoreCall ==
    /\ \E c \in {<< >>, << 95 >>, << 100 >>}, v \in {<< >>, << 95 >>, << 100 >>},
          k \in {<< >>, << 99 >>, << 100 >>} :
        LET out == AggregateQualityScore(c, v, k)
        IN  scoring' = [by |-> "aggregate_quality_score", input |-> << c, v, k >>,
                        score |-> out.overall_score, grade |-> out.grade]
    /\ previous' = Outcome(scoring)
    /\ UNCHANGED << checkerVars, connVars, dagVars, zVars, unitVars >>

\* stage_4_quality_checks once the connection is open: overall_score is
\* sum(quality_scores.values()) / len(quality_scores).
Stage4QualityChecks ==
    /\ LET overall_score == Score(SumSeq(QualityScores), Len(QualityScores))
       IN  scoring' = [by |-> "stage_4_quality_checks", input |-> QualityScores,
                       score |-> overall_score,
                       grade |-> WeeklyGrade(overall_score)]
    /\ previous' = Outcome(scoring)
    /\ UNCHANGED << checkerVars, connVars, dagVars, zVars, unitVars >>

\* calculate_quality_score on a list of issues.
CalculateQualityScoreCall ==
    /\ \E issues \in IssueLists \cup NullIssueLists :
        scoring' = [by |-> "calculate_quality_score", input |-> issues,
                    score |-> Score(CalculateQualityScore(issues), 1),
                    grade |-> "none"]
    /\ previous' = Outcome(scoring)
    /\ UNCHANGED << checkerVars, connVars, dagVars, zVars, unitVars >>

\* generate_html: the score and the grade of the issues the detectors found.
GenerateHtml ==
    /\ \E all_issues \in ReportIssueLists :
        LET quality_score == Score(CalculateQualityScore(all_issues), 1)
        IN  scoring' = [by |-> "generate_html", input |-> all_issues,
                        score |-> quality_score,
                        grade |-> HtmlGrade(quality_score)]
    /\ previous' = Outcome(scoring)
    /\ UNCHANGED << checkerVars, connVars, dagVars, zVars, unitVars >>

(***************************************************************************)
(* The daily DAG: validate_database_connection, then the three dimension   *)
(* tasks in any order, then aggregate_quality_score.  A task runs once all *)
(* its upstream tasks have succeeded; a task whose function raises ends    *)
(* failed and pushes nothing.                                              *)
(***************************************************************************)
MaxDagDirty == 2        \* queries of the daily DAG with a count > 0

\* The checks dicts of the three dimension tasks, in order.
DagChecks ==
    [check_completeness |->
        << "customers_email_null", "customers_id_null", "products_name_null",
           "products_price_null", "orders_id_null", "orders_amount_null" >>,
     check_validity |->
        << "age_range", "price_positive", "order_amount_positive",
           "quantity_positive", "email_format", "future_dates" >>,
     check_consistency |->
        << "customer_fk", "product_fk", "calculation_accuracy" >>]

DagQueries ==
    DagChecks.check_completeness \o DagChecks.check_validity
        \o DagChecks.check_consistency

DagStores ==
    UNION { { [n \in { DagQueries[q] : q \in 1..Len(DagQueries) } |->
                 IF \E q \in D : DagQueries[q] = n
                 THEN f[CHOOSE q \in D : DagQueries[q] = n] ELSE 0] :
              f \in [D -> 1..MaxCount] } : D \in DirtySets(MaxDagDirty, Len(DagQueries)) }

CleanDagStore == [n \in { DagQueries[q] : q \in 1..Len(DagQueries) } |-> 0]

\* The store on which every query of the daily DAG counts one violation.
DirtyDagStore == [n \in { DagQueries[q] : q \in 1..Len(DagQueries) } |-> 1]

DagTasks ==
    {"validate_database_connection", "check_completeness", "check_validity",
     "check_consistency", "aggregate_quality_score"}

\* A DAG without dependencies: every task may start at once.
UpstreamNone(t) == {}

\* task_db_validation >> [completeness, validity, consistency] >> task_aggregate
Upstream(t) ==
    CASE t = "validate_database_connection" -> {}
      [] t = "aggregate_quality_score" ->
            {"check_completeness", "check_validity", "check_consistency"}
      [] OTHER -> {"validate_database_connection"}

Runnable(t) ==
    /\ task[t] = "none"
    /\ \A u \in Upstream(t) : task[u] = "success"

NoXcom ==
    [db_connection_status |-> << >>, completeness_score |-> << >>,
     validity_score |-> << >>, consistency_score |-> << >>,
     overall_score |-> << >>, grade |-> << >>]

\* The loop of a dimension task: the counts of its queries, added up.
ViolationCount(t) ==
    SumSeq([i \in 1..Len(DagChecks[t]) |-> dagStore[DagChecks[t][i]]])

\* The loop of a dimension task keeping only the count of the last query.
LastCount(t) == dagStore[DagChecks[t][Len(DagChecks[t])]]

\* A dimension task taking the placeholder deduction once per violation.
DimensionScoreByCount(t, dirty) == 100 - ViolationCount(t) * (100 - dirty)

\* A dimension task scoring the count of its last query only.
DimensionScoreLastOnly(t, dirty) ==
    IF LastCount(t) = 0 THEN 100 ELSE dirty

\* completeness_score = 100.0 if null_count == 0 else 95.0, and likewise
\* for the other two tasks with their own second value.
DimensionScore(t, dirty) ==
    IF ViolationCount(t) = 0 THEN 100 ELSE dirty

\* validate_database_connection: raises when the connection fails or a
\* required table is missing.
DagValidateDatabaseConnection ==
    /\ Runnable("validate_database_connection")
    /\ \E ok \in BOOLEAN :
        IF ok
        THEN /\ task' = [task EXCEPT !["validate_database_connection"] = "success"]
             /\ xcom' = [xcom EXCEPT !.db_connection_status = << "SUCCESS" >>]
        ELSE /\ task' = [task EXCEPT !["validate_database_connection"] = "failed"]
             /\ UNCHANGED xcom
    /\ UNCHANGED dagStore
    /\ UNCHANGED << checkerVars, connVars, scoreVars, zVars, unitVars >>

\* check_completeness of the daily DAG.
DagCheckCompleteness ==
    /\ Runnable("check_completeness")
    /\ \E ok \in BOOLEAN :
        IF ok
        THEN /\ task' = [task EXCEPT !["check_completeness"] = "success"]
             /\ xcom' = [xcom EXCEPT !.completeness_score =
                            << DimensionScore("check_completeness", 95) >>]
        ELSE /\ task' = [task EXCEPT !["check_completeness"] = "failed"]
             /\ UNCHANGED xcom
    /\ UNCHANGED dagStore
    /\ UNCHANGED << checkerVars, connVars, scoreVars, zVars, unitVars >>

\* check_validity of the daily DAG.
DagCheckValidity ==
    /\ Runnable("check_validity")
    /\ \E ok \in BOOLEAN :
        IF ok
        THEN /\ task' = [task EXCEPT !["check_validity"] = "success"]
             /\ xcom' = [xcom EXCEPT !.validity_score =
                            << DimensionScore("check_validity", 95) >>]
        ELSE /\ task' = [task EXCEPT !["check_validity"] = "failed"]
             /\ UNCHANGED xcom
    /\ UNCHANGED dagStore
    /\ UNCHANGED << checkerVars, connVars, scoreVars, zVars, unitVars >>

\* check_consistency of the daily DAG.
DagCheckConsistency ==
    /\ Runnable("check_consistency")
    /\ \E ok \in BOOLEAN :
        IF ok
        THEN /\ task' = [task EXCEPT !["check_consistency"] = "success"]
             /\ xcom' = [xcom EXCEPT !.consistency_score =
                            << DimensionScore("check_consistency", 99) >>]
        ELSE /\ task' = [task EXCEPT !["check_consistency"] = "failed"]
             /\ UNCHANGED xcom
    /\ UNCHANGED dagStore
    /\ UNCHANGED << checkerVars, connVars, scoreVars, zVars, unitVars >>

\* aggregate_quality_score of the daily DAG: pulls the three scores and
\* pushes the overall score and the grade.
DagAggregateQualityScore ==
    /\ Runnable("aggregate_quality_score")
    /\ \E ok \in BOOLEAN :
        IF ok
        THEN LET out == AggregateQualityScore(xcom.completeness_score,
                                              xcom.validity_score,
                                              xcom.consistency_score)
             IN  /\ task' = [task EXCEPT !["aggregate_quality_score"] = "success"]
                 /\ xcom' = [xcom EXCEPT !.overall_score = << out.overall_score >>,
                                         !.grade = << out.grade >>]
        ELSE /\ task' = [task EXCEPT !["aggregate_quality_score"] = "failed"]
             /\ UNCHANGED xcom
    /\ UNCHANGED dagStore
    /\ UNCHANGED << checkerVars, connVars, scoreVars, zVars, unitVars >>

(***************************************************************************)
(* z_score_outliers.  A column holds amounts in tenths (1 is 0.1); the     *)
(* threshold is in tenths too.  pandas takes mean = sum / n and            *)
(* std = sqrt(sum((mean - x)^2) / (n - 1)), in float64.  With              *)
(* d(i) = n * x(i) - sum, the z-score of row i squared is                  *)
(* d(i)^2 * (n - 1) / sum(d^2), which is what is kept here, so that the    *)
(* comparison with the threshold is exact.  For n <= 1 the std is NaN:     *)
(* NaN == 0 is false and no z-score exceeds any threshold.                 *)
(***************************************************************************)
MaxLen == 6             \* rows of the frame
MaxValue == 2           \* largest amount, in tenths

\* The thresholds of the callers (3.0 from the configuration by default,
\* 2.5 and 2.0), and 0.6 for a configured low one, in tenths.
Thresholds == {6, 20, 25, 30}

Columns == UNION { [1..n -> 0..MaxValue] : n \in 0..MaxLen }

\* The constant columns whose float64 mean is not the value itself, as
\* << value, rows >>: 0.1 + 0.1 + 0.1 is 0.30000000000000004, and a third of
\* it is 0.10000000000000002.  The std of such a column is about 1e-17, not
\* 0, and every row has the z-score sqrt((n - 1) / n).  The sums of 2, 4 and
\* 5 rows of 0.1 or 0.2, and all sums of 0.0 and 0.3, divide back exactly.
RoundedMeans == {1, 2} \X {3, 6, 7}

Dev(col, i) == Len(col) * col[i] - SumSeq(col)

SqDev(col) == SumSeq([i \in 1..Len(col) |-> Dev(col, i) * Dev(col, i)])

IsNaN(col) == Len(col) <= 1

Rounded(col) == SqDev(col) = 0 /\ << col[1], Len(col) >> \in RoundedMeans

\* if std == 0
StdIsZero(col) == ~ IsNaN(col) /\ SqDev(col) = 0 /\ ~ Rounded(col)

\* The same with the std of the population, sqrt(sum((mean - x)^2) / n).
ZSquaredPopulation(col, i) ==
    IF Rounded(col) THEN [num |-> Len(col), den |-> Len(col)]
    ELSE [num |-> Dev(col, i) * Dev(col, i) * Len(col), den |-> SqDev(col)]

\* np.abs((df[column] - mean) / std), squared, of row i.
ZSquared(col, i) ==
    IF Rounded(col) THEN [num |-> Len(col) - 1, den |-> Len(col)]
    ELSE [num |-> Dev(col, i) * Dev(col, i) * (Len(col) - 1), den |-> SqDev(col)]

\* z_score > threshold, for a threshold of t tenths.
Exceeds(z2, t) == t < 0 \/ z2.num * 10 * 10 > t * t * z2.den

\* df['z_score'], and df[df['z_score'] > threshold]
ZScoreColumn(col) ==
    [i \in 1..Len(col) |-> IF IsNaN(col) THEN "NaN" ELSE ZSquared(col, i)]

OutlierRows(col, t) ==
    IF IsNaN(col) THEN << >>
    ELSE LET flagged == SelectSeq([i \in 1..Len(col) |-> i],
                                  LAMBDA i : Exceeds(ZSquared(col, i), t))
         IN  [j \in 1..Len(flagged) |->
                [row |-> flagged[j], total_amount |-> col[flagged[j]],
                 z_score |-> ZSquared(col, flagged[j])]]

NoFrame == [total_amount |-> << >>, z_score |-> << >>]

NotCalled == [called |-> FALSE, rows |-> << >>]

\* z_score_outliers(df, 'total_amount', threshold): an empty frame when the
\* std is 0; otherwise the frame gets its z_score column and the rows above
\* the threshold are returned.
ZScoreOutliers ==
    /\ ~ outliers.called
    /\ LET t == IF threshold = << >> THEN 30 ELSE threshold[1]
       IN  IF StdIsZero(df.total_amount)
           THEN /\ outliers' = [called |-> TRUE, rows |-> << >>]
                /\ UNCHANGED df
           ELSE /\ df' = [df EXCEPT !.z_score = ZScoreColumn(df.total_amount)]
                /\ outliers' = [called |-> TRUE,
                                rows |-> OutlierRows(df.total_amount, t)]
    /\ UNCHANGED threshold
    /\ UNCHANGED << checkerVars, connVars, scoreVars, dagVars, unitVars >>

(***************************************************************************)
(* AnomalyDetector (detect_anomalies.py).  Every detector opens its own    *)
(* connection, reads its rows and appends at most one finding; a failure   *)
(* of the connection or of a query is logged and raised again.             *)
(***************************************************************************)
MaxFound == 2

\* The detectors in the order run_all_detections calls them.
Detectors ==
    << "detect_order_amount_anomalies", "detect_quantity_anomalies",
       "detect_customer_spending_anomalies", "detect_daily_sales_anomalies",
       "detect_business_rule_violations" >>

\* What the store holds for the detectors: the rows z_score_outliers keeps
\* of orders, customer_summary and daily_sales_summary, the order items
\* with quantity > 5, and the three counts of the business rules.
AnomalyCounts ==
    { "order_amount_outliers", "high_qty", "spending_outliers", "sales_spikes",
      "high_value", "frequent", "zero_revenue" }

AnomalyStores == [AnomalyCounts -> 0..MaxFound]

\* The dictionary a detector appends to self.anomalies.
Finding(type, count, severity) ==
    [type |-> type, count |-> count, severity |-> severity]

\* if len(outliers) > 0: self.anomalies.append({... 'severity': 'INFO' ...})
AppendIfAny(list, type, count) ==
    IF count > 0 THEN Append(list, Finding(type, count, "INFO")) ELSE list

\* The violations list of detect_business_rule_violations: one text per
\* rule whose count is positive, in the order of the rules.
Violations(s) ==
    (IF s.high_value > 0 THEN << "very high-value orders" >> ELSE << >>)
    \o (IF s.frequent > 0 THEN << "highly active customers" >> ELSE << >>)
    \o (IF s.zero_revenue > 0 THEN << "zero-revenue orders" >> ELSE << >>)

\* if violations: one finding for all the rules, counting the rules.
AppendViolations(list, s) ==
    IF Violations(s) # << >>
    THEN Append(list, Finding("Business Rule Violations", Len(Violations(s)),
                              "WARNING"))
    ELSE list

\* A run that logs the failure of a detector and goes on with the next one.
RunAllDetectionsFailSoft(ok, i) ==
    [nextDetector |-> i + 1, detection |-> "running"]

\* run_all_detections after detector i: on to the next one, or the
\* exception of the detector leaves run_all_detections (except: raise).
RunAllDetections(ok, i) ==
    IF ok THEN [nextDetector |-> i + 1, detection |-> "running"]
    ELSE [nextDetector |-> i, detection |-> "raised"]

DetectOrderAmountAnomalies ==
    /\ detection = "running"
    /\ nextDetector = 1
    /\ ran' = Append(ran, Detectors[1])
    /\ \E ok \in BOOLEAN :
        /\ anomalies' = IF ok
                        THEN AppendIfAny(anomalies, "Order Amount Outliers",
                                         anomalyStore.order_amount_outliers)
                        ELSE anomalies
        /\ nextDetector' = RunAllDetections(ok, 1).nextDetector
        /\ detection' = RunAllDetections(ok, 1).detection
    /\ UNCHANGED << anomalyStore, detected >>
    /\ UNCHANGED << saveVars, genVars, refreshVars, loadVars, reportVars >>
    /\ UNCHANGED << checkerVars, connVars, scoreVars, dagVars, zVars >>

DetectQuantityAnomalies ==
    /\ detection = "running"
    /\ nextDetector = 2
    /\ ran' = Append(ran, Detectors[2])
    /\ \E ok \in BOOLEAN :
        /\ anomalies' = IF ok
                        THEN AppendIfAny(anomalies, "High Quantity Orders",
                                         anomalyStore.high_qty)
                        ELSE anomalies
        /\ nextDetector' = RunAllDetections(ok, 2).nextDetector
        /\ detection' = RunAllDetections(ok, 2).detection
    /\ UNCHANGED << anomalyStore, detected >>
    /\ UNCHANGED << saveVars, genVars, refreshVars, loadVars, reportVars >>
    /\ UNCHANGED << checkerVars, connVars, scoreVars, dagVars, zVars >>

DetectCustomerSpendingAnomalies ==
    /\ detection = "running"
    /\ nextDetector = 3
    /\ ran' = Append(ran, Detectors[3])
    /\ \E ok \in BOOLEAN :
        /\ anomalies' = IF ok
                        THEN AppendIfAny(anomalies, "High-Value Customers",
                                         anomalyStore.spending_outliers)
                        ELSE anomalies
        /\ nextDetector' = RunAllDetections(ok, 3).nextDetector
        /\ detection' = RunAllDetections(ok, 3).detection
    /\ UNCHANGED << anomalyStore, detected >>
    /\ UNCHANGED << saveVars, genVars, refreshVars, loadVars, reportVars >>
    /\ UNCHANGED << checkerVars, connVars, scoreVars, dagVars, zVars >>

DetectDailySalesAnomalies ==
    /\ detection = "running"
    /\ nextDetector = 4
    /\ ran' = Append(ran, Detectors[4])
    /\ \E ok \in BOOLEAN :
        /\ anomalies' = IF ok
                        THEN AppendIfAny(anomalies, "Daily Sales Spikes",
                                         anomalyStore.sales_spikes)
                        ELSE anomalies
        /\ nextDetector' = RunAllDetections(ok, 4).nextDetector
        /\ detection' = RunAllDetections(ok, 4).detection
    /\ UNCHANGED << anomalyStore, detected >>
    /\ UNCHANGED << saveVars, genVars, refreshVars, loadVars, reportVars >>
    /\ UNCHANGED << checkerVars, connVars, scoreVars, dagVars, zVars >>

DetectBusinessRuleViolations ==
    /\ detection = "running"
    /\ nextDetector = 5
    /\ ran' = Append(ran, Detectors[5])
    /\ \E ok \in BOOLEAN :
        /\ anomalies' = IF ok THEN AppendViolations(anomalies, anomalyStore)
                        ELSE anomalies
        /\ nextDetector' = RunAllDetections(ok, 5).nextDetector
        /\ detection' = RunAllDetections(ok, 5).detection
    /\ UNCHANGED << anomalyStore, detected >>
    /\ UNCHANGED << saveVars, genVars, refreshVars, loadVars, reportVars >>
    /\ UNCHANGED << checkerVars, connVars, scoreVars, dagVars, zVars >>

\* The summary of run_all_detections and its return self.anomalies.
RunAllDetectionsReturn ==
    /\ detection = "running"
    /\ nextDetector = Len(Detectors) + 1
    /\ detection' = "returned"
    /\ detected' = << anomalies >>
    /\ UNCHANGED << anomalyStore, anomalies, nextDetector, ran >>
    /\ UNCHANGED << saveVars, genVars, refreshVars, loadVars, reportVars >>
    /\ UNCHANGED << checkerVars, connVars, scoreVars, dagVars, zVars >>

\* A detector object on which run_all_detections was not called.
AnomalyIdle ==
    /\ anomalyStore = [k \in AnomalyCounts |-> 0]
    /\ anomalies = << >>
    /\ nextDetector = 1
    /\ ran = << >>
    /\ detection = "running"
    /\ detected = << >>

(***************************************************************************)
(* The files the runs persist: quality_check_<ts>.json (_save_results) and *)
(* quality_report_<ts>.html (save_report), both opened with mode 'w' in    *)
(* data/processed.  <ts> is strftime('%Y%m%d_%H%M%S') of a local time.     *)
(***************************************************************************)
MaxSubSecond == 2
MaxClock == 4
MaxSaves == 3

\* strftime('%Y%m%d_%H%M%S'): the second the instant lies in.
Strftime(instant) == instant \div MaxSubSecond

\* open(path, 'w') and the write by run r: the file is created, or
\* truncated and filled with the content of run r.
WriteFile(path, r) ==
    { f \in files : f.path # path } \cup { [path |-> path, run |-> r] }

\* The runs whose content open(path, 'w') truncates.
Truncated(path) == { f.run : f \in { g \in files : g.path = path } }

\* Time passes.
Tick ==
    /\ clock < MaxClock
    /\ clock' = clock + 1
    /\ UNCHANGED << saveRuns, files, lost >>
    /\ UNCHANGED << anomalyVars, genVars, refreshVars, loadVars, reportVars >>
    /\ UNCHANGED << checkerVars, connVars, scoreVars, dagVars, zVars >>

\* A run of the quality checks: DataQualityChecker() takes self.timestamp,
\* _save_results writes the file named after it, or fails and logs.
SaveResultsFile ==
    /\ saveRuns < MaxSaves
    /\ saveRuns' = saveRuns + 1
    /\ \E ok \in BOOLEAN :
        LET path == << "quality_check", Strftime(clock), "json" >>
        IN  /\ files' = IF ok THEN WriteFile(path, saveRuns + 1) ELSE files
            /\ lost' = IF ok THEN lost \cup Truncated(path) ELSE lost
    /\ UNCHANGED clock
    /\ UNCHANGED << anomalyVars, genVars, refreshVars, loadVars, reportVars >>
    /\ UNCHANGED << checkerVars, connVars, scoreVars, dagVars, zVars >>

\* A run of the report generator: save_report names the file after
\* datetime.now() and writes it, or raises.
SaveReport ==
    /\ saveRuns < MaxSaves
    /\ saveRuns' = saveRuns + 1
    /\ \E ok \in BOOLEAN :
        LET path == << "quality_report", Strftime(clock), "html" >>
        IN  /\ files' = IF ok THEN WriteFile(path, saveRuns + 1) ELSE files
            /\ lost' = IF ok THEN lost \cup Truncated(path) ELSE lost
    /\ UNCHANGED clock
    /\ UNCHANGED << anomalyVars, genVars, refreshVars, loadVars, reportVars >>
    /\ UNCHANGED << checkerVars, connVars, scoreVars, dagVars, zVars >>

\* An empty data/processed before any run.
SaveIdle ==
    /\ clock = 0
    /\ saveRuns = 0
    /\ files = {}
    /\ lost = {}

(***************************************************************************)
(* The data generator (generate_ecommerce_data.py): every run derives its  *)
(* ID offsets from RANDOM_SEED and numbers its rows with counters.  A      *)
(* batch is kept as the first and last ID of each table.                   *)
(***************************************************************************)
MaxSeed == 120
MaxGeneratorRuns == 2

NUM_CUSTOMERS == 10000
NUM_PRODUCTS == 500
NUM_ORDERS == 50000

\* len(PRODUCT_CATEGORIES) and the length of each list of subcategories.
NumCategories == 3
NumSubcategories == 5

CUSTOMER_ID_OFFSET(seed) == (seed % 100) * 10000

PRODUCT_ID_OFFSET(seed) == (seed % 20) * 5000

ORDER_ID_OFFSET(seed) == (seed % 1000) * 100

\* The IDs first .. first + n - 1 a counter hands out to n rows.
Counted(first, n) == [first |-> first, last |-> first + n - 1]

\* generate_customers: customer_id = CUSTOMER_ID_OFFSET + 1001 + i.
GenerateCustomers(seed) ==
    Counted(CUSTOMER_ID_OFFSET(seed) + 1001, NUM_CUSTOMERS)

\* generate_products: products_per_subcategory rows for each subcategory of
\* each category, numbered from PRODUCT_ID_OFFSET + 2001.
GenerateProducts(seed) ==
    Counted(PRODUCT_ID_OFFSET(seed) + 2001,
            NumCategories * NumSubcategories
                * ((NUM_PRODUCTS \div NumCategories) \div NumSubcategories))

\* generate_orders: numbered from ORDER_ID_OFFSET + 3001.
GenerateOrders(seed) == Counted(ORDER_ID_OFFSET(seed) + 3001, NUM_ORDERS)

\* One run of the generator with some RANDOM_SEED.
GeneratorMain ==
    /\ Len(generated) < MaxGeneratorRuns
    /\ \E seed \in 0..MaxSeed :
        generated' = Append(generated,
                            [seed |-> seed,
                             customers |-> GenerateCustomers(seed),
                             products |-> GenerateProducts(seed),
                             orders |-> GenerateOrders(seed)])
    /\ UNCHANGED << anomalyVars, saveVars, refreshVars, loadVars, reportVars >>
    /\ UNCHANGED << checkerVars, connVars, scoreVars, dagVars, zVars >>

GeneratorIdle == generated = << >>

(***************************************************************************)
(* refresh_all_aggregates (refresh_aggregations.py): one connection, one   *)
(* refresh_table per entry of SQL_QUERIES.  A refresh drops and rebuilds   *)
(* the table and commits, then counts its rows.                            *)
(***************************************************************************)
\* The keys of SQL_QUERIES in the order of the dict.
SQL_QUERIES ==
    << "customer_summary", "product_summary", "daily_sales_summary",
       "monthly_sales_summary" >>

\* How a call of refresh_table can go: all statements succeed; the refresh
\* query fails on a live connection; the row count after the commit fails
\* on a live connection; the connection is lost, so that the statement
\* fails and conn.rollback() in the handler fails as well.
RefreshOutcomes == {"refreshed", "query_failed", "count_failed", "connection_lost"}

\* refresh_table: True, False, or the exception of conn.rollback().
RefreshTable(how) ==
    CASE how = "refreshed" -> "True"
      [] how \in {"query_failed", "count_failed"} -> "False"
      [] OTHER -> "raised"

\* The table after refresh_table: conn.commit() was reached or not.
Committed(how) == how \in {"refreshed", "count_failed"}

\* connect_to_database at the start of refresh_all_aggregates; when it
\* raises, the handler returns False and conn is still None.
ConnectToDatabase ==
    /\ refreshConn = "none"
    /\ refresh_ret = "none"
    /\ \E ok \in BOOLEAN :
        IF ok
        THEN /\ refreshConn' = "open"
             /\ UNCHANGED refresh_ret
        ELSE /\ refresh_ret' = "False"
             /\ UNCHANGED refreshConn
    /\ UNCHANGED << nextTable, success_count, fail_count, aggregates >>
    /\ UNCHANGED << anomalyVars, saveVars, genVars, loadVars, reportVars >>
    /\ UNCHANGED << checkerVars, connVars, scoreVars, dagVars, zVars >>

\* One turn of the loop.  An exception leaving refresh_table ends the
\* loop in the handler of refresh_all_aggregates, which returns False
\* after the finally block closed the connection.
RefreshNextTable ==
    /\ refreshConn = "open"
    /\ refresh_ret = "none"
    /\ nextTable <= Len(SQL_QUERIES)
    /\ \E how \in RefreshOutcomes :
        /\ aggregates' = IF Committed(how)
                         THEN [aggregates EXCEPT ![SQL_QUERIES[nextTable]] = "fresh"]
                         ELSE aggregates
        /\ success_count' = IF RefreshTable(how) = "True"
                            THEN success_count + 1 ELSE success_count
        /\ fail_count' = IF RefreshTable(how) = "False"
                         THEN fail_count + 1 ELSE fail_count
        /\ IF RefreshTable(how) = "raised"
           THEN /\ refresh_ret' = "False"
                /\ refreshConn' = "closed"
                /\ UNCHANGED nextTable
           ELSE /\ nextTable' = nextTable + 1
                /\ UNCHANGED << refresh_ret, refreshConn >>
    /\ UNCHANGED << anomalyVars, saveVars, genVars, loadVars, reportVars >>
    /\ UNCHANGED << checkerVars, connVars, scoreVars, dagVars, zVars >>

\* After the loop: the summary, return fail_count == 0, and the finally
\* block closing the connection.
RefreshSummary ==
    /\ refreshConn = "open"
    /\ refresh_ret = "none"
    /\ nextTable = Len(SQL_QUERIES) + 1
    /\ refresh_ret' = PyBool(fail_count = 0)
    /\ refreshConn' = "closed"
    /\ UNCHANGED << nextTable, success_count, fail_count, aggregates >>
    /\ UNCHANGED << anomalyVars, saveVars, genVars, loadVars, reportVars >>
    /\ UNCHANGED << checkerVars, connVars, scoreVars, dagVars, zVars >>

\* Before refresh_all_aggregates: the aggregate tables of the last refresh.
RefreshIdle ==
    /\ refreshConn = "none"
    /\ nextTable = 1
    /\ success_count = 0
    /\ fail_count = 0
    /\ aggregates = [t \in { SQL_QUERIES[i] : i \in 1..Len(SQL_QUERIES) } |-> "stale"]
    /\ refresh_ret = "none"

(***************************************************************************)
(* load_csv_to_table (load_csv_to_postgres.py): counts the rows, opens a   *)
(* second connection, inserts the CSV chunk by chunk with the ON CONFLICT  *)
(* clause of the table in one transaction, commits, counts again.          *)
(***************************************************************************)
MaxCsvRows == 3
MaxChunk == 2
MaxLoads == 2

LoadTables == {"customers", "products", "orders"}

\* The primary keys and the other columns of a row, as the CSVs carry them.
LoadIds == {1001, 1002}

LoadData == {"a", "b"}

CsvRows == [id : LoadIds, data : LoadData]

CsvFiles == UNION { [1..n -> CsvRows] : n \in 0..MaxCsvRows }

TableContents == [LoadIds -> LoadData \cup {"absent"}]

\* SELECT COUNT(*) FROM table.
RowCount(content) == Cardinality({ k \in LoadIds : content[k] # "absent" })

\* pd.read_csv(csv_file, chunksize=batch_size): the number of chunks and
\* the rows of chunk k.
NumChunks(csv) == (Len(csv) + MaxChunk - 1) \div MaxChunk

Chunk(csv, k) ==
    SubSeq(csv, (k - 1) * MaxChunk + 1,
           IF k * MaxChunk < Len(csv) THEN k * MaxChunk ELSE Len(csv))

\* An upsert that overwrites the existing row for every table.
UpsertAlwaysUpdate(content, row, name) == [content EXCEPT ![row.id] = row.data]

\* One row under the clause of the table: a new id is inserted; an
\* existing customer or product is updated (DO UPDATE SET ... EXCLUDED),
\* an existing order is left alone (DO NOTHING).
Upsert(content, row, name) ==
    IF content[row.id] = "absent" THEN [content EXCEPT ![row.id] = row.data]
    ELSE IF name = "orders" THEN content
    ELSE [content EXCEPT ![row.id] = row.data]

\* execute_values with page_size = len(values): one INSERT for the chunk.
RECURSIVE InsertChunk(_, _, _)
InsertChunk(content, chunk, name) ==
    IF chunk = << >> THEN content
    ELSE InsertChunk(Upsert(content, Head(chunk), name), Tail(chunk), name)

\* PostgreSQL rejects an INSERT ... ON CONFLICT DO UPDATE that proposes the
\* same key twice (the command cannot affect a row a second time).
AffectsRowTwice(chunk, name) ==
    /\ name # "orders"
    /\ \E i, j \in 1..Len(chunk) : i < j /\ chunk[i].id = chunk[j].id

\* A loop that commits after every chunk.
CommitEachChunk(committed, inside) == inside

\* The committed content while the loop runs: conn.commit() comes after the
\* loop, so the rows of the chunks stay inside the transaction.
CommittedInLoop(committed, inside) == committed

LoadResult(how, added, old, new) ==
    [how |-> how, added |-> added, before |-> old, after |-> new]

\* load_csv_to_table up to the loop: the first connection counts the rows,
\* the second one opens the transaction.  A failure is raised again.
LoadCsvBegin ==
    /\ txn = << >>
    /\ Len(loads) < MaxLoads
    /\ \E ok \in BOOLEAN :
        IF ok
        THEN /\ existing_count' = RowCount(target)
             /\ txn' = << target >>
             /\ before' = target
             /\ chunk_num' = 0
             /\ UNCHANGED loads
        ELSE /\ loads' = Append(loads, LoadResult("connect_failed", 0, target, target))
             /\ UNCHANGED << txn, before, chunk_num, existing_count >>
    /\ UNCHANGED << table_name, csv_file, target >>
    /\ UNCHANGED << anomalyVars, saveVars, genVars, refreshVars, reportVars >>
    /\ UNCHANGED << checkerVars, connVars, scoreVars, dagVars, zVars >>

\* One turn of the loop: the INSERT of the next chunk.  When it fails the
\* handler rolls back and raises.
LoadCsvChunk ==
    /\ txn # << >>
    /\ chunk_num < NumChunks(csv_file)
    /\ \E ok \in BOOLEAN :
        LET chunk == Chunk(csv_file, chunk_num + 1)
            inside == InsertChunk(txn[1], chunk, table_name)
        IN  IF ok /\ ~AffectsRowTwice(chunk, table_name)
            THEN /\ txn' = << inside >>
                 /\ target' = CommittedInLoop(target, inside)
                 /\ chunk_num' = chunk_num + 1
                 /\ UNCHANGED loads
            ELSE /\ txn' = << >>
                 /\ loads' = Append(loads,
                                    LoadResult("insert_failed", 0, before, target))
                 /\ UNCHANGED << target, chunk_num >>
    /\ UNCHANGED << table_name, csv_file, existing_count, before >>
    /\ UNCHANGED << anomalyVars, saveVars, genVars, refreshVars, reportVars >>
    /\ UNCHANGED << checkerVars, connVars, scoreVars, dagVars, zVars >>

\* After the loop: conn.commit(), the final count and
\* return final_count - existing_count.  A failure of the final count is
\* raised after the commit.
LoadCsvCommit ==
    /\ txn # << >>
    /\ chunk_num = NumChunks(csv_file)
    /\ target' = txn[1]
    /\ txn' = << >>
    /\ \E ok \in BOOLEAN :
        loads' = Append(loads,
                        IF ok
                        THEN LoadResult("returned",
                                        RowCount(txn[1]) - existing_count,
                                        before, txn[1])
                        ELSE LoadResult("count_failed", 0, before, txn[1]))
    /\ UNCHANGED << table_name, csv_file, chunk_num, existing_count, before >>
    /\ UNCHANGED << anomalyVars, saveVars, genVars, refreshVars, reportVars >>
    /\ UNCHANGED << checkerVars, connVars, scoreVars, dagVars, zVars >>

\* No load was started; the table is empty and the CSV has no rows.
LoadIdle ==
    /\ table_name = "orders"
    /\ csv_file = << >>
    /\ target = [k \in LoadIds |-> "absent"]
    /\ txn = << >>
    /\ chunk_num = 0
    /\ existing_count = 0
    /\ before = [k \in LoadIds |-> "absent"]
    /\ loads = << >>

(***************************************************************************)
(* generate_html (generate_quality_report.py): get_table_stats, the three  *)
(* issue detectors, get_high_value_anomalies, then the score, the grade    *)
(* and the page.  Each detector runs its queries in order on a connection  *)
(* of its own and keeps its list in a try block.                           *)
(***************************************************************************)
\* What a store holds for the detectors (at most MaxNullIssues counts > 0
\* for each of them): per null check "none" (no nulls),
\* "WARNING" (1..100 nulls) or "CRITICAL" (more); the duplicate checks and
\* the rules with a count > 0; the rows of the high-value query.
ReportStores ==
    [nulls : UNION { { [i \in 1..Len(NullChecks) |->
                          IF i \in D THEN f[i] ELSE "none"] :
                        f \in [D -> {"WARNING", "CRITICAL"}] } :
                     D \in DirtySets(MaxNullIssues, Len(NullChecks)) },
     dups : DirtySets(MaxNullIssues, Len(DuplicateChecks)),
     rules : DirtySets(MaxNullIssues, Len(DataQualityRules)),
     high : {<< >>, << "order" >>}]

\* The severity each check of a detector reports on store s ("none": its
\* count is 0).
Severities(detector, s) ==
    CASE detector = "detect_null_values" -> s.nulls
      [] detector = "detect_duplicates" ->
            [i \in 1..Len(DuplicateChecks) |->
                IF i \in s.dups THEN DuplicateChecks[i] ELSE "none"]
      [] OTHER ->
            [i \in 1..Len(DataQualityRules) |->
                IF i \in s.rules THEN DataQualityRules[i] ELSE "none"]

\* The issues a detector has appended when the first lim of its checks
\* went through: one per check with a count > 0, in order.
Collected(detector, s, lim) ==
    LET sev == Severities(detector, s)
        pos == SelectSeq([i \in 1..lim |-> i], LAMBDA i : sev[i] # "none")
    IN  [j \in 1..Len(pos) |->
            [detector |-> detector, check |-> pos[j], severity |-> sev[pos[j]]]]

\* The number of checks whose count the detector read when check failAt
\* raised (the failing query of a null check may be the count of the
\* table, after the null count was read).
Read(detector, failAt, afterCount) ==
    [detector |-> detector,
     upTo |-> IF afterCount THEN failAt ELSE failAt - 1]

\* A detector that logs the exception and raises it again.
DetectorRaises(fails, issues) ==
    [raised |-> fails, issues |-> IF fails THEN << >> ELSE issues]

\* A detector whose query failed or not: except Exception: logger.error(...)
\* and, in both cases, return issues.
DetectorReturns(fails, issues) == [raised |-> FALSE, issues |-> issues]

\* get_table_stats: a table that cannot be counted is logged with 0 rows; a
\* failure of get_connection is raised again and ends generate_html.
HtmlGetTableStats ==
    /\ reportPc = "get_table_stats"
    /\ \E ok \in BOOLEAN :
        IF ok
        THEN /\ reportPc' = "detect_null_values"
             /\ UNCHANGED html
        ELSE /\ reportPc' = "done"
             /\ html' = [status |-> "raised", score |-> 0, grade |-> "none"]
    /\ UNCHANGED << reportStore, allIssues, high_value, lastRead >>
    /\ UNCHANGED << anomalyVars, saveVars, genVars, refreshVars, loadVars >>
    /\ UNCHANGED << checkerVars, connVars, scoreVars, dagVars, zVars >>

\* detect_null_values: check failAt raises (Len + 1: none does; 1 also
\* stands for a failed get_connection).
HtmlDetectNullValues ==
    /\ reportPc = "detect_null_values"
    /\ \E failAt \in 1..(Len(NullChecks) + 1), afterCount \in BOOLEAN :
        /\ afterCount =>
            (failAt <= Len(NullChecks) /\ reportStore.nulls[failAt] # "none")
        /\ LET out == DetectorReturns(failAt <= Len(NullChecks),
                                     Collected("detect_null_values",
                                               reportStore, failAt - 1))
           IN  /\ allIssues' = allIssues \o out.issues
               /\ reportPc' = IF out.raised THEN "done" ELSE "detect_duplicates"
               /\ html' = IF out.raised
                          THEN [status |-> "raised", score |-> 0, grade |-> "none"]
                          ELSE html
        /\ lastRead' = Read("detect_null_values", failAt, afterCount)
    /\ UNCHANGED << reportStore, high_value >>
    /\ UNCHANGED << anomalyVars, saveVars, genVars, refreshVars, loadVars >>
    /\ UNCHANGED << checkerVars, connVars, scoreVars, dagVars, zVars >>

HtmlDetectDuplicates ==
    /\ reportPc = "detect_duplicates"
    /\ \E failAt \in 1..(Len(DuplicateChecks) + 1) :
        /\ LET out == DetectorReturns(failAt <= Len(DuplicateChecks),
                                     Collected("detect_duplicates",
                                               reportStore, failAt - 1))
           IN  /\ allIssues' = allIssues \o out.issues
               /\ reportPc' = IF out.raised THEN "done"
                              ELSE "detect_data_quality_issues"
               /\ html' = IF out.raised
                          THEN [status |-> "raised", score |-> 0, grade |-> "none"]
                          ELSE html
        /\ lastRead' = Read("detect_duplicates", failAt, FALSE)
    /\ UNCHANGED << reportStore, high_value >>
    /\ UNCHANGED << anomalyVars, saveVars, genVars, refreshVars, loadVars >>
    /\ UNCHANGED << checkerVars, connVars, scoreVars, dagVars, zVars >>

HtmlDetectDataQualityIssues ==
    /\ reportPc = "detect_data_quality_issues"
    /\ \E failAt \in 1..(Len(DataQualityRules) + 1) :
        /\ LET out == DetectorReturns(failAt <= Len(DataQualityRules),
                                     Collected("detect_data_quality_issues",
                                               reportStore, failAt - 1))
           IN  /\ allIssues' = allIssues \o out.issues
               /\ reportPc' = IF out.raised THEN "done"
                              ELSE "get_high_value_anomalies"
               /\ html' = IF out.raised
                          THEN [status |-> "raised", score |-> 0, grade |-> "none"]
                          ELSE html
        /\ lastRead' = Read("detect_data_quality_issues", failAt, FALSE)
    /\ UNCHANGED << reportStore, high_value >>
    /\ UNCHANGED << anomalyVars, saveVars, genVars, refreshVars, loadVars >>
    /\ UNCHANGED << checkerVars, connVars, scoreVars, dagVars, zVars >>

\* get_high_value_anomalies: one query; its rows, or none when it fails.
HtmlGetHighValueAnomalies ==
    /\ reportPc = "get_high_value_anomalies"
    /\ \E ok \in BOOLEAN :
        LET out == DetectorReturns(~ok, IF ok THEN reportStore.high ELSE << >>)
        IN  /\ high_value' = out.issues
            /\ reportPc' = IF out.raised THEN "done" ELSE "render"
            /\ html' = IF out.raised
                       THEN [status |-> "raised", score |-> 0, grade |-> "none"]
                       ELSE html
    /\ UNCHANGED << reportStore, allIssues, lastRead >>
    /\ UNCHANGED << anomalyVars, saveVars, genVars, refreshVars, loadVars >>
    /\ UNCHANGED << checkerVars, connVars, scoreVars, dagVars, zVars >>

\* The rest of generate_html: the score of allIssues, the grade, the page.
HtmlRender ==
    /\ reportPc = "render"
    /\ LET quality_score ==
              CalculateQualityScore([j \in 1..Len(allIssues) |->
                                        allIssues[j].severity])
       IN  html' = [status |-> "completed", score |-> quality_score,
                    grade |-> HtmlGrade(Score(quality_score, 1))]
    /\ reportPc' = "done"
    /\ UNCHANGED << reportStore, allIssues, high_value, lastRead >>
    /\ UNCHANGED << anomalyVars, saveVars, genVars, refreshVars, loadVars >>
    /\ UNCHANGED << checkerVars, connVars, scoreVars, dagVars, zVars >>

\* Before generate_html, on a clean store.
ReportIdle ==
    /\ reportStore = [nulls |-> [i \in 1..Len(NullChecks) |-> "none"],
                      dups |-> {}, rules |-> {}, high |-> << >>]
    /\ reportPc = "get_table_stats"
    /\ allIssues = << >>
    /\ high_value = << >>
    /\ lastRead = [detector |-> "none", upTo |-> 0]
    /\ html = [status |-> "none", score |-> 0, grade |-> "none"]

\* The units outside the quality checks and the daily DAG before any call,
\* but for the unit g.
UnitsIdleBut(g) ==
    /\ IF g = "anomaly" THEN TRUE ELSE AnomalyIdle
    /\ IF g = "save" THEN TRUE ELSE SaveIdle
    /\ IF g = "gen" THEN TRUE ELSE GeneratorIdle
    /\ IF g = "refresh" THEN TRUE ELSE RefreshIdle
    /\ IF g = "load" THEN TRUE ELSE LoadIdle
    /\ IF g = "report" THEN TRUE ELSE ReportIdle

UnitsIdle == UnitsIdleBut("none")

\* The quality checks, the helpers, the scoring units, the daily DAG and
\* z_score_outliers before any call, on clean stores.
QualityIdle ==
    /\ store = CleanStore
    /\ conn = "none"
    /\ pc = "main"
    /\ idx = 0
    /\ results = << >>
    /\ passed = 0
    /\ failed = 0
    /\ ret = "none"
    /\ summaries = << >>
    /\ saved = "none"
    /\ returns = << >>
    /\ runs = 0
    /\ exit_status = "running"
    /\ openConns = 0
    /\ unit = "none"
    /\ outcome = "none"
    /\ tableRows = 0
    /\ scoring = NoScoring
    /\ previous = Outcome(NoScoring)
    /\ dagStore = CleanDagStore
    /\ task = [t \in DagTasks |-> "none"]
    /\ xcom = NoXcom
    /\ df = NoFrame
    /\ threshold = << >>
    /\ outliers = NotCalled

Init ==
    /\ store \in Stores
    /\ conn = "none"
    /\ pc = "main"
    /\ idx = 0
    /\ results = << >>
    /\ passed = 0
    /\ failed = 0
    /\ ret = "none"
    /\ summaries = << >>
    /\ saved = "none"
    /\ returns = << >>
    /\ runs = 0
    /\ exit_status = "running"
    /\ openConns = 0
    /\ unit = "none"
    /\ outcome = "none"
    /\ tableRows = 0
    /\ scoring = NoScoring
    /\ previous = Outcome(NoScoring)
    /\ dagStore = CleanDagStore
    /\ task = [t \in DagTasks |-> "none"]
    /\ xcom = NoXcom
    /\ df = NoFrame
    /\ threshold = << >>
    /\ outliers = NotCalled
    /\ UnitsIdle

\* One process running main().
Next ==
    \/ DataQualityCheckerInit
    \/ CheckCompleteness
    \/ CheckValidity
    \/ CheckConsistency
    \/ CheckUniqueness
    \/ PrintSummary
    \/ SaveResults
    \/ MainFinally

Spec == Init /\ [][Next]_vars

\* A caller that may reuse the checker object before closing it.
NextReuse ==
    \/ Next
    \/ RunAllChecksAgain

SpecReuse == Init /\ [][NextReuse]_vars

\* The connection-per-call helpers, called in any order on a clean store.
InitConn ==
    /\ Init
    /\ store = CleanStore

NextConn ==
    \/ DbExecuteQuery
    \/ ExecuteBatchInsert
    \/ TableExists
    \/ GetRowCount
    \/ DetectNullValues

SpecConn == InitConn /\ [][NextConn]_vars

\* One run of the daily DAG on any store; nothing else runs.
InitDaily ==
    /\ store = CleanStore
    /\ conn = "none"
    /\ pc = "main"
    /\ idx = 0
    /\ results = << >>
    /\ passed = 0
    /\ failed = 0
    /\ ret = "none"
    /\ summaries = << >>
    /\ saved = "none"
    /\ returns = << >>
    /\ runs = 0
    /\ exit_status = "running"
    /\ openConns = 0
    /\ unit = "none"
    /\ outcome = "none"
    /\ tableRows = 0
    /\ scoring = NoScoring
    /\ previous = Outcome(NoScoring)
    /\ dagStore \in DagStores \cup {DirtyDagStore}
    /\ task = [t \in DagTasks |-> "none"]
    /\ xcom = NoXcom
    /\ df = NoFrame
    /\ threshold = << >>
    /\ outliers = NotCalled
    /\ UnitsIdle

NextDaily ==
    \/ DagValidateDatabaseConnection
    \/ DagCheckCompleteness
    \/ DagCheckValidity
    \/ DagCheckConsistency
    \/ DagAggregateQualityScore

SpecDaily == InitDaily /\ [][NextDaily]_vars

\* One call of z_score_outliers on any frame with any threshold.
InitZ ==
    /\ store = CleanStore
    /\ conn = "none"
    /\ pc = "main"
    /\ idx = 0
    /\ results = << >>
    /\ passed = 0
    /\ failed = 0
    /\ ret = "none"
    /\ summaries = << >>
    /\ saved = "none"
    /\ returns = << >>
    /\ runs = 0
    /\ exit_status = "running"
    /\ openConns = 0
    /\ unit = "none"
    /\ outcome = "none"
    /\ tableRows = 0
    /\ scoring = NoScoring
    /\ previous = Outcome(NoScoring)
    /\ dagStore = CleanDagStore
    /\ task = [t \in DagTasks |-> "none"]
    /\ xcom = NoXcom
    /\ \E col \in Columns : df = [total_amount |-> col, z_score |-> << >>]
    /\ threshold \in {<< >>} \cup { << t >> : t \in Thresholds }
    /\ outliers = NotCalled
    /\ UnitsIdle

NextZ == ZScoreOutliers

SpecZ == InitZ /\ [][NextZ]_vars

\* The scoring units, each called any number of times in any order.
NextScore ==
    \/ PrintSummaryCall
    \/ AggregateQualityScoreCall
    \/ Stage4QualityChecks
    \/ CalculateQualityScoreCall
    \/ GenerateHtml

SpecScore == InitConn /\ [][NextScore]_vars

\* One call of run_all_detections on a new AnomalyDetector, on any store.
InitDetect ==
    /\ QualityIdle
    /\ UnitsIdleBut("anomaly")
    /\ anomalyStore \in AnomalyStores
    /\ anomalies = << >>
    /\ nextDetector = 1
    /\ ran = << >>
    /\ detection = "running"
    /\ detected = << >>

NextDetect ==
    \/ DetectOrderAmountAnomalies
    \/ DetectQuantityAnomalies
    \/ DetectCustomerSpendingAnomalies
    \/ DetectDailySalesAnomalies
    \/ DetectBusinessRuleViolations
    \/ RunAllDetectionsReturn

SpecDetect == InitDetect /\ [][NextDetect]_vars

\* Runs of the quality checks and of the report generator, one after the
\* other, while time passes.
InitSave ==
    /\ QualityIdle
    /\ UnitsIdleBut("save")
    /\ SaveIdle

NextSave ==
    \/ Tick
    \/ SaveResultsFile
    \/ SaveReport

SpecSave == InitSave /\ [][NextSave]_vars

\* Runs of the data generator, each with a seed of its own.
InitGenerator ==
    /\ QualityIdle
    /\ UnitsIdleBut("gen")
    /\ GeneratorIdle

NextGenerator == GeneratorMain

SpecGenerator == InitGenerator /\ [][NextGenerator]_vars

\* One call of refresh_all_aggregates.
InitRefresh ==
    /\ QualityIdle
    /\ UnitsIdleBut("refresh")
    /\ RefreshIdle

NextRefresh ==
    \/ ConnectToDatabase
    \/ RefreshNextTable
    \/ RefreshSummary

SpecRefresh == InitRefresh /\ [][NextRefresh]_vars

\* Calls of load_csv_to_table with the same table and CSV, one after the
\* other and with no other writer, on any content of the table.
InitLoad ==
    /\ QualityIdle
    /\ UnitsIdleBut("load")
    /\ table_name \in LoadTables
    /\ csv_file \in CsvFiles
    /\ target \in TableContents
    /\ txn = << >>
    /\ chunk_num = 0
    /\ existing_count = 0
    /\ before = target
    /\ loads = << >>

NextLoad ==
    \/ LoadCsvBegin
    \/ LoadCsvChunk
    \/ LoadCsvCommit

SpecLoad == InitLoad /\ [][NextLoad]_vars

\* One call of generate_html on any store.
InitReport ==
    /\ QualityIdle
    /\ UnitsIdleBut("report")
    /\ reportStore \in ReportStores
    /\ reportPc = "get_table_stats"
    /\ allIssues = << >>
    /\ high_value = << >>
    /\ lastRead = [detector |-> "none", upTo |-> 0]
    /\ html = [status |-> "none", score |-> 0, grade |-> "none"]

NextReport ==
    \/ HtmlGetTableStats
    \/ HtmlDetectNullValues
    \/ HtmlDetectDuplicates
    \/ HtmlDetectDataQualityIssues
    \/ HtmlGetHighValueAnomalies
    \/ HtmlRender

SpecReport == InitReport /\ [][NextReport]_vars

(***************************************************************************)
(* Properties.                                                             *)
(***************************************************************************)
\* The status check q gets on this store when its query does not raise.
FaultFreeStatus(q) ==
    IF store[q] = AllChecks[q].expected THEN "PASS" ELSE "FAIL"

\* The positions of the result log whose own query failed.
RootFailures ==
    {i \in DOMAIN results :
        results[i].status = "ERROR" /\ results[i].error \in RootErrors}

HasError == \E i \in DOMAIN results : results[i].status = "ERROR"

\* C1: fail-soft isolation.  When exactly one check's own query fails in a
\* run, all NumChecks results are recorded and every other check has the
\* status it gets on the same store without the failure.
C1_FailSoftIsolation ==
    (pc = "print_summary" /\ Cardinality(RootFailures) = 1) =>
        /\ Len(results) = NumChecks
        /\ \A i \in DOMAIN results :
              i \notin RootFailures => results[i].status = FaultFreeStatus(i)

\* C2: run_check never raises.  Every step of a battery whose query fails
\* appends exactly one ERROR entry that carries the error, returns False
\* and leaves the run at the next check of the battery (or at what follows
\* the battery), with main() still running.
C2_RunCheckNeverRaises ==
    [][ (pc \in BatteryPcs /\ conn' # "open") =>
            /\ Len(results') = Len(results) + 1
            /\ results' = Append(results,
                    [check_name |-> AllChecks[Offset(pc) + idx + 1].check_name,
                     severity |-> AllChecks[Offset(pc) + idx + 1].severity,
                     status |-> "ERROR",
                     error |-> results'[Len(results')].error])
            /\ results'[Len(results')].error \in
                   RootErrors \cup {"InFailedSqlTransaction", "InterfaceError"}
            /\ ret' = "False"
            /\ exit_status' = "running"
            /\ pc' \in BatteryPcs \cup {"print_summary"}
            /\ (pc' = pc => idx' = idx + 1) ]_vars

\* C2 witness: a query failed, its ERROR entry is in the log, run_check
\* returned False and the battery ran a further check after it.
C2_Witness ==
    /\ pc \in BatteryPcs
    /\ ret = "False"
    /\ \E i \in DOMAIN results :
          /\ i < Len(results)
          /\ results[i].status = "ERROR"
          /\ results[i].error = "ProgrammingError"

\* C3, state part: the counters agree with the result log, ERROR entries
\* have no 'actual' field and PASS/FAIL entries have one.
C3_CountersAgree ==
    /\ passed + failed = Len(results)
    /\ passed = Cardinality({i \in DOMAIN results : results[i].status = "PASS"})
    /\ failed = Cardinality({i \in DOMAIN results :
                                results[i].status \in {"FAIL", "ERROR"}})
    /\ \A i \in DOMAIN results :
          /\ results[i].status \in {"PASS", "FAIL", "ERROR"}
          /\ results[i].status = "ERROR" <=> "actual" \notin DOMAIN results[i]

\* C3, step part: a step leaves the result log alone or appends exactly one
\* entry to it; earlier entries are never changed or removed.
C3_AppendOnly ==
    \/ results' = results
    \/ /\ Len(results') = Len(results) + 1
       /\ SubSeq(results', 1, Len(results)) = results
       /\ pc \in BatteryPcs

\* C3: after any sequence of run_check calls the counters agree with the
\* result log, and every call appends exactly one entry without touching
\* the earlier ones.
C3_ResultLog == []C3_CountersAgree /\ [][C3_AppendOnly]_vars

\* C3 witness: a log that holds a PASS, a FAIL and an ERROR entry.
C3_Witness ==
    /\ \E i \in DOMAIN results : results[i].status = "PASS"
    /\ \E i \in DOMAIN results : results[i].status = "FAIL"
    /\ \E i \in DOMAIN results : results[i].status = "ERROR"
    /\ failed >= 2

\* The query that produced entry i of the result log.
QueryOf(i) == ((i - 1) % NumChecks) + 1

\* C4: a check that executes without exception is PASS exactly when the
\* returned scalar equals expected, FAIL otherwise, and 'actual' is the
\* returned scalar; after the six completeness checks (no query failed)
\* passed is the number of checked columns with null count 0 and failed the
\* number with a non-zero null count.
C4_PassIffEqual ==
    /\ \A i \in DOMAIN results :
          results[i].status # "ERROR" =>
              /\ results[i].actual = store[QueryOf(i)]
              /\ results[i].expected = 0
              /\ results[i].status = "PASS" <=> results[i].actual = results[i].expected
              /\ results[i].status = "FAIL" <=> results[i].actual # results[i].expected
    /\ (Len(results) = Len(Completeness) /\ ~HasError) =>
          /\ passed = Cardinality({q \in 1..Len(Completeness) : store[q] = 0})
          /\ failed = Cardinality({q \in 1..Len(Completeness) : store[q] # 0})

\* C4 witness: the six completeness checks ran, one column has 3 nulls:
\* passed = 5, failed = 1 and the failing entry's actual is 3.
C4_Witness ==
    /\ Len(results) = 6
    /\ passed = 5
    /\ failed = 1
    /\ \E i \in DOMAIN results :
          results[i].status = "FAIL" /\ results[i].actual = 3

\* An ERROR-severity check ended FAIL or ERROR.
ErrorSeverityFailure ==
    \E i \in DOMAIN results :
        results[i].severity = "ERROR" /\ results[i].status \in {"FAIL", "ERROR"}

\* C5: main() ends with a nonzero status whenever an ERROR-severity check
\* ended FAIL or ERROR, and with status 0 when the only failing checks have
\* severity WARNING.
C5_ExitReflectsSeverity ==
    (pc = "exited" /\ runs >= 1) =>
        /\ ErrorSeverityFailure => exit_status = "raised"
        /\ ~ErrorSeverityFailure => exit_status = "returned"

Grades ==
    {"A+ (Excellent)", "A (Very Good)", "B (Good)", "C (Acceptable)",
     "F (Needs Attention)"}

\* C6: once connected, run_all_checks never raises and never stops short of
\* the summary: every state before main()'s exit has a next step, and from
\* the summary on all 20 checks are recorded, the summary shows
\* total = passed + failed = 20 and a grade, and the result list is returned.
C6_AlwaysReachesSummary ==
    /\ (runs >= 1 /\ pc # "exited") => ENABLED Next
    /\ runs >= 1 => exit_status # "raised"
    /\ (runs >= 1 /\ pc \notin BatteryPcs) =>
          /\ Len(results) = 20
          /\ pc # "print_summary" =>
                /\ Len(summaries) = 1
                /\ summaries[1].total = 20
                /\ summaries[1].passed + summaries[1].failed = 20
                /\ summaries[1].passed = passed
                /\ summaries[1].failed = failed
                /\ summaries[1].grade \in Grades
          /\ pc \in {"returned", "exited"} => returns = << results >>

\* C6 witness: run_all_checks returned after a run in which a query failed.
C6_Witness ==
    /\ pc = "returned"
    /\ HasError
    /\ summaries[1].total = 20
    /\ summaries[1].failed >= 1
    /\ returns = << results >>

\* C7: the result log lists the checks in the fixed order Completeness (6),
\* Validity (6), Consistency (4), Uniqueness (4), and the position of the
\* run agrees with it: a battery is at work only when every check of the
\* earlier batteries is recorded.
C7_FixedOrder ==
    /\ Len(results) <= 20
    /\ \A i \in DOMAIN results :
          /\ i <= 6 => results[i].check_name = Completeness[i].check_name
          /\ (6 < i /\ i <= 12) => results[i].check_name = Validity[i - 6].check_name
          /\ (12 < i /\ i <= 16) => results[i].check_name = Consistency[i - 12].check_name
          /\ 16 < i => results[i].check_name = Uniqueness[i - 16].check_name
    /\ pc = "check_completeness" => Len(results) = idx /\ idx < 6
    /\ pc = "check_validity" => Len(results) = 6 + idx /\ idx < 6
    /\ pc = "check_consistency" => Len(results) = 12 + idx /\ idx < 4
    /\ pc = "check_uniqueness" => Len(results) = 16 + idx /\ idx < 4

\* C7 witness: all four batteries ran.
C7_Witness ==
    /\ pc = "print_summary"
    /\ Len(results) = 20
    /\ results[20].check_name = "Customers: No duplicate emails"

\* C8: the results and counters of a second run_all_checks invocation on
\* the same object hold only the outcomes of that invocation.
C8_NoCrossRunState ==
    (pc = "returned" /\ runs = 2) =>
        /\ Len(returns[2]) = NumChecks
        /\ summaries[2].total = NumChecks
        /\ passed + failed = NumChecks

\* C9: no call of a helper leaves a connection open, whether it returns or
\* raises.
C9_ConnectionsClosed == openConns = 0

\* C10: when the connection cannot be established the run aborts at once:
\* main() ends by raising, with no check run, no result, no summary and no
\* result file; without a connection no check is ever at work.
C10_ConnectFailureAborts ==
    (conn = "none" /\ pc # "main") =>
        /\ pc = "exited"
        /\ exit_status = "raised"
        /\ runs = 0
        /\ results = << >>
        /\ passed = 0
        /\ failed = 0
        /\ ret = "none"
        /\ summaries = << >>
        /\ saved = "none"
        /\ returns = << >>

\* C10 witness: main() ended because the connection failed.
C10_Witness ==
    /\ conn = "none"
    /\ pc = "exited"
    /\ exit_status = "raised"

(***************************************************************************)
(* C11: a failure to write the JSON results file is swallowed.  Once the   *)
(* write has failed, no exception has left run_all_checks, the call has    *)
(* returned the complete result list, and the result list and the          *)
(* counters are the ones the summary was printed from.                     *)
(***************************************************************************)
C11_SaveFailureSwallowed ==
    saved = "failed" =>
        /\ pc \in {"returned", "exited"}
        /\ exit_status # "raised"
        /\ Len(returns) >= 1
        /\ returns[Len(returns)] = results
        /\ Len(results) = NumChecks
        /\ Len(summaries) >= 1
        /\ summaries[Len(summaries)].passed = passed
        /\ summaries[Len(summaries)].failed = failed
        /\ summaries[Len(summaries)].total = Len(results)

C11_Witness ==
    /\ saved = "failed"
    /\ pc = "exited"
    /\ exit_status = "returned"
    /\ failed > 0

\* The documented threshold table.
ThresholdTable(s) ==
    IF s.num >= 99 * s.den THEN "A+ (Excellent)"
    ELSE IF s.num >= 95 * s.den THEN "A (Very Good)"
    ELSE IF s.num >= 90 * s.den THEN "B (Good)"
    ELSE IF s.num >= 80 * s.den THEN "C (Acceptable)"
    ELSE "F (Needs Attention)"

(***************************************************************************)
(* C12: _print_summary grades the pass rate by fixed cutoffs: at least 99  *)
(* is A+, at least 95 is A, at least 90 is B, at least 80 is C and         *)
(* anything lower is F, for every pair of counters a summary is printed    *)
(* from.                                                                   *)
(***************************************************************************)
C12_SummaryGradeCutoffs ==
    scoring.by = "_print_summary" =>
        scoring.grade = ThresholdTable(scoring.score)

\* The units that assign a grade, and the letter of a grade label.
Graders ==
    {"_print_summary", "aggregate_quality_score", "stage_4_quality_checks",
     "generate_html"}

Letter(grade) ==
    CASE grade = "A+ (Excellent)" -> "A+"
      [] grade = "A (Very Good)" -> "A"
      [] grade = "B (Good)" -> "B"
      [] grade \in {"C (Acceptable)", "C (Needs Attention)"} -> "C"
      [] grade = "F (Needs Attention)" -> "F"
      [] OTHER -> "none"

SameScore(s, t) == s.num * t.den = t.num * s.den

(***************************************************************************)
(* C13: the graders agree.  Two grading units that arrive at the same      *)
(* overall score (the checker summary, the daily and the weekly            *)
(* aggregation, the HTML report) assign the same grade letter.             *)
(***************************************************************************)
C13_GradersAgree ==
    (/\ scoring.by \in Graders
     /\ previous.by \in Graders
     /\ SameScore(scoring.score, previous.score))
        => Letter(scoring.grade) = Letter(previous.grade)

\* The dimension score aggregate_quality_score works with: the pushed one,
\* 100 when none was pushed.
Dimension(pulled) == IF pulled = << >> THEN 100 ELSE pulled[1]

(***************************************************************************)
(* C14: equal-weight aggregation.  The overall score of the daily and of   *)
(* the weekly aggregation is the mean of the four dimension scores         *)
(* (uniqueness is 100 in the daily DAG) and the grade is the one of the    *)
(* 99/95/90/80 table; the scores 100, 100, 99, 100 give 99.75 and          *)
(* "A+ (Excellent)".                                                       *)
(***************************************************************************)
C14_EqualWeightMean ==
    /\ scoring.by = "aggregate_quality_score" =>
        /\ 4 * scoring.score.num =
              scoring.score.den * (Dimension(scoring.input[1])
                                   + Dimension(scoring.input[2])
                                   + Dimension(scoring.input[3]) + 100)
        /\ scoring.grade = ThresholdTable(scoring.score)
        /\ scoring.input = << << 100 >>, << 100 >>, << 99 >> >> =>
              /\ 100 * scoring.score.num = 9975 * scoring.score.den
              /\ scoring.grade = "A+ (Excellent)"
    /\ scoring.by = "stage_4_quality_checks" =>
        /\ scoring.input = << 100, 100, 99, 100 >>
        /\ 100 * scoring.score.num = 9975 * scoring.score.den
        /\ scoring.grade = ThresholdTable(scoring.score)
        /\ scoring.grade = "A+ (Excellent)"

C14_Witness ==
    /\ scoring.by = "aggregate_quality_score"
    /\ scoring.input = << << 100 >>, << 100 >>, << 99 >> >>
    /\ scoring.grade = "A+ (Excellent)"
    /\ previous.by = "stage_4_quality_checks"
    /\ previous.grade = "A+ (Excellent)"

\* The number of issues of a list whose severity is sev.
Count(issues, sev) == Cardinality({ i \in 1..Len(issues) : issues[i] = sev })

(***************************************************************************)
(* C15: deduction policy.  For a list with c critical and w warning        *)
(* issues calculate_quality_score returns 100 - 5c - 2w, or 0 when that is *)
(* negative; the result lies in [0, 100] and every issue of the list is    *)
(* one of the c or of the w.                                               *)
(***************************************************************************)
C15_DeductionClamped ==
    scoring.by \in {"calculate_quality_score", "generate_html"} =>
        LET c == Count(scoring.input, "CRITICAL")
            w == Count(scoring.input, "WARNING")
        IN  /\ c + w = Len(scoring.input)
            /\ scoring.score.den = 1
            /\ scoring.score.num >= 0
            /\ scoring.score.num <= 100
            /\ 100 - 5 * c - 2 * w >= 0 => scoring.score.num = 100 - 5 * c - 2 * w
            /\ 100 - 5 * c - 2 * w < 0 => scoring.score.num = 0

C15_Witness ==
    /\ scoring.by = "calculate_quality_score"
    /\ Count(scoring.input, "CRITICAL") = MaxCritical
    /\ Count(scoring.input, "WARNING") = MaxWarning
    /\ scoring.score.num = 0
    /\ previous.by = "generate_html"
    /\ previous.score.num = 93

\* The order of the grade letters: F < C < B < A < A+.
Rank(letter) ==
    CASE letter = "A+" -> 4
      [] letter = "A" -> 3
      [] letter = "B" -> 2
      [] letter = "C" -> 1
      [] OTHER -> 0

GradeRank(grade) == Rank(Letter(grade))

NoMoreThan(s, t) == s.num * t.den <= t.num * s.den

(***************************************************************************)
(* C16: grade monotonicity.  For each grader a higher score never gets a   *)
(* worse grade, in the order F < C < B < A < A+: for the scores of two     *)
(* calls of the same grader, and for each grade table step by step over    *)
(* the scores from 0 to 100 (in quarter points; for _print_summary in the  *)
(* pass rates of a fixed total).  The tables do not depend on the state,   *)
(* so the second part is stated for the state before the first call.      *)
(***************************************************************************)
C16_GradeMonotone ==
    /\ (/\ scoring.by \in Graders
        /\ previous.by = scoring.by
        /\ NoMoreThan(previous.score, scoring.score))
           => GradeRank(previous.grade) <= GradeRank(scoring.grade)
    /\ scoring.by = "none" =>
        /\ \A n \in 0..(100 * 4 - 1) :
            /\ GradeRank(DailyGrade(Score(n, 4)))
                  <= GradeRank(DailyGrade(Score(n + 1, 4)))
            /\ GradeRank(WeeklyGrade(Score(n, 4)))
                  <= GradeRank(WeeklyGrade(Score(n + 1, 4)))
            /\ GradeRank(HtmlGrade(Score(n, 4)))
                  <= GradeRank(HtmlGrade(Score(n + 1, 4)))
        /\ \A p \in 0..(MaxSummaryRuns * NumChecks - 1) :
            GradeRank(Grade(p, MaxSummaryRuns * NumChecks - p))
                <= GradeRank(Grade(p + 1, MaxSummaryRuns * NumChecks - p - 1))

C16_Witness ==
    /\ scoring.by = "generate_html"
    /\ previous.by = "generate_html"
    /\ ~ NoMoreThan(scoring.score, previous.score)
    /\ GradeRank(previous.grade) = 1
    /\ GradeRank(scoring.grade) = 4

\* The score a dimension task pushed (0 when it pushed none).
Pushed(key) == IF xcom[key] = << >> THEN 0 ELSE xcom[key][1]

\* Some query of task t counts a violation; the number of such queries.
AnyViolation(t) == \E i \in 1..Len(DagChecks[t]) : dagStore[DagChecks[t][i]] > 0

Affected(t) == Cardinality({ i \in 1..Len(DagChecks[t]) : dagStore[DagChecks[t][i]] > 0 })

(***************************************************************************)
(* C18: the placeholder scores of the daily DAG.  A dimension task that    *)
(* succeeded has pushed 100 when none of its queries counts a violation    *)
(* and otherwise 95 (completeness, validity) or 99 (consistency), however  *)
(* many violations or queries there are.                                   *)
(***************************************************************************)
C18_PlaceholderScores ==
    /\ task["check_completeness"] = "success" =>
        Pushed("completeness_score") =
            IF AnyViolation("check_completeness") THEN 95 ELSE 100
    /\ task["check_validity"] = "success" =>
        Pushed("validity_score") =
            IF AnyViolation("check_validity") THEN 95 ELSE 100
    /\ task["check_consistency"] = "success" =>
        Pushed("consistency_score") =
            IF AnyViolation("check_consistency") THEN 99 ELSE 100

C18_Witness ==
    /\ task["check_completeness"] = "success"
    /\ task["check_validity"] = "success"
    /\ task["check_consistency"] = "success"
    /\ Affected("check_completeness") = MaxDagDirty
    /\ Pushed("completeness_score") = 95
    /\ Pushed("validity_score") = 100
    /\ Pushed("consistency_score") = 100

\* All values of the column are equal.
ConstantColumn(col) == \A i, j \in 1..Len(col) : col[i] = col[j]

(***************************************************************************)
(* C19: a column whose values are all equal, a single-row column and an    *)
(* empty column give an empty outlier set, whatever the threshold.         *)
(***************************************************************************)
C19_ConstantColumnNoOutliers ==
    (outliers.called /\ ConstantColumn(df.total_amount)) => outliers.rows = << >>

\* The threshold a call works with, in tenths: the one passed, 3.0 if none.
ThresholdUsed == IF threshold = << >> THEN 30 ELSE threshold[1]

\* Sum and sum of squares of a column.
ColumnSum(col) == SumSeq(col)

ColumnSquares(col) == SumSeq([i \in 1..Len(col) |-> col[i] * col[i]])

\* |x - mean| / std > t / 10 for row i of a column of n rows with sum S and
\* sum of squares Q, mean S / n and std sqrt((Q - S^2 / n) / (n - 1)):
\* (n x - S)^2 (n - 1) 10^2 > t^2 n (n Q - S^2).
AboveThreshold(col, i, t) ==
    LET n == Len(col)
        S == ColumnSum(col)
        Q == ColumnSquares(col)
    IN  (n * col[i] - S) * (n * col[i] - S) * (n - 1) * 100
            > t * t * n * (n * Q - S * S)

(***************************************************************************)
(* C20: for a column whose values are not all equal, z_score_outliers      *)
(* returns exactly the rows whose |x - mean| / std is strictly greater     *)
(* than the threshold passed by the caller (3.0 when none is passed), in   *)
(* row order, each with its value and its z-score.                         *)
(***************************************************************************)
C20_ExactlyRowsAboveThreshold ==
    (outliers.called /\ ~ ConstantColumn(df.total_amount)) =>
        LET col == df.total_amount
            n == Len(col)
            rows == outliers.rows
        IN  /\ \A i \in 1..n :
                AboveThreshold(col, i, ThresholdUsed)
                    <=> \E j \in 1..Len(rows) : rows[j].row = i
            /\ \A j \in 1..Len(rows) :
                /\ rows[j].row \in 1..n
                /\ rows[j].total_amount = col[rows[j].row]
                /\ rows[j].z_score = df.z_score[rows[j].row]
                /\ rows[j].z_score.num * n * (n * ColumnSquares(col)
                                            - ColumnSum(col) * ColumnSum(col))
                     = rows[j].z_score.den * (n - 1)
                         * (n * col[rows[j].row] - ColumnSum(col))
                         * (n * col[rows[j].row] - ColumnSum(col))
            /\ \A j, k \in 1..Len(rows) : j < k => rows[j].row < rows[k].row

C20_Witness ==
    /\ outliers.called
    /\ threshold = << 20 >>
    /\ Len(df.total_amount) = MaxLen
    /\ Len(outliers.rows) = 1
    /\ outliers.rows[1].row = 2

\* The findings of self.anomalies that carry severity sev.
Flagged(sev) == { i \in 1..Len(anomalies) : anomalies[i].severity = sev }

\* C21: once detect_business_rule_violations has run on a store with
\* zero-value orders, self.anomalies holds a finding of severity Critical
\* for them, whatever the other two rules found.
C21_ZeroValueFlaggedCritical ==
    (nextDetector = Len(Detectors) + 1 /\ anomalyStore.zero_revenue > 0)
        => Flagged("CRITICAL") # {}

\* The type of the finding of each detector, and whether its rows or
\* rules found anything on this store.
FindingTypes ==
    << "Order Amount Outliers", "High Quantity Orders", "High-Value Customers",
       "Daily Sales Spikes", "Business Rule Violations" >>

FoundAny ==
    << anomalyStore.order_amount_outliers > 0, anomalyStore.high_qty > 0,
       anomalyStore.spending_outliers > 0, anomalyStore.sales_spikes > 0,
       \E k \in {"high_value", "frequent", "zero_revenue"} : anomalyStore[k] > 0 >>

\* The detectors that ran to their end: all that started, but the one
\* that raised.
Completed == IF detection = "raised" THEN Len(ran) - 1 ELSE Len(ran)

\* C30: run_all_detections is fail-fast.  The detectors start in the fixed
\* order; self.anomalies holds, in that order, exactly one finding for every
\* detector that ran to its end and found something; when a detector
\* raises, run_all_detections raises, the raising detector is the last one
\* started, nothing is returned and the earlier findings stay; a list is
\* returned only after all five detectors, and it is self.anomalies.
C30_FailFastDetections ==
    /\ Len(ran) <= Len(Detectors)
    /\ \A i \in 1..Len(ran) : ran[i] = Detectors[i]
    /\ \A i \in 1..Len(Detectors) :
        Cardinality({ j \in 1..Len(anomalies) :
                        anomalies[j].type = FindingTypes[i] })
            = IF i <= Completed /\ FoundAny[i] THEN 1 ELSE 0
    /\ \A j, k \in 1..Len(anomalies) :
        j < k => \E a, b \in 1..Len(Detectors) :
                    /\ a < b
                    /\ anomalies[j].type = FindingTypes[a]
                    /\ anomalies[k].type = FindingTypes[b]
    /\ \A j \in 1..Len(anomalies) : anomalies[j].count > 0
    /\ detection = "raised" => (detected = << >> /\ nextDetector = Len(ran))
    /\ detection = "running" => (detected = << >> /\ nextDetector = Len(ran) + 1)
    /\ detection = "returned" =>
        (Len(ran) = Len(Detectors) /\ detected = << anomalies >>)

\* The third detector raised after the first two appended their findings.
C30_Witness ==
    /\ detection = "raised"
    /\ Len(ran) = 3
    /\ Len(anomalies) = 2

\* C22: no run that persisted results ever has its file replaced by a
\* later run: every path is written by one run only.
C22_NoOverwrite == lost = {}

\* Two ID ranges without a common ID.
Disjoint(a, b) == a.last < b.first \/ b.last < a.first

\* C23: any two runs of the generator with different seeds wrote disjoint
\* customer_id, product_id and order_id ranges.
C23_DisjointIdRanges ==
    \A i, j \in 1..Len(generated) :
        (i < j /\ generated[i].seed # generated[j].seed) =>
            /\ Disjoint(generated[i].customers, generated[j].customers)
            /\ Disjoint(generated[i].products, generated[j].products)
            /\ Disjoint(generated[i].orders, generated[j].orders)

\* The three dimension tasks of the daily DAG.
DimensionTasks == {"check_completeness", "check_validity", "check_consistency"}

\* The overall score and grade aggregate_quality_score computes from the
\* store alone: from the score each dimension task pushes on this store.
OverallOnStore ==
    AggregateQualityScore(<< IF AnyViolation("check_completeness") THEN 95 ELSE 100 >>,
                          << IF AnyViolation("check_validity") THEN 95 ELSE 100 >>,
                          << IF AnyViolation("check_consistency") THEN 99 ELSE 100 >>)

\* C24: in the daily DAG no dimension task has started unless
\* validate_database_connection succeeded, aggregate_quality_score has not
\* started unless all three dimension tasks succeeded, and the overall
\* score and grade it pushes depend on the store only, not on the order in
\* which the dimension tasks ran.
C24_DagOrderAndSameScore ==
    /\ \A t \in DimensionTasks :
        task[t] # "none" => task["validate_database_connection"] = "success"
    /\ task["aggregate_quality_score"] # "none" =>
        \A t \in DimensionTasks : task[t] = "success"
    /\ task["aggregate_quality_score"] = "success" =>
        /\ xcom.overall_score = << OverallOnStore.overall_score >>
        /\ xcom.grade = << OverallOnStore.grade >>

\* The aggregator ran on a store with a violation, after the three
\* dimension tasks.
C24_Witness ==
    /\ task["aggregate_quality_score"] = "success"
    /\ AnyViolation("check_validity")
    /\ xcom.overall_score = << Score(395, 4) >>

\* C28: every dimension score the aggregator of the daily DAG receives is
\* 100, 95 or 99, its overall score lies in [97.25, 100] and its grade is
\* A+ or A.
C28_ScoreAtLeast9725 ==
    /\ \A k \in {"completeness_score", "validity_score", "consistency_score"} :
        xcom[k] # << >> => xcom[k][1] \in {100, 95, 99}
    /\ xcom.overall_score # << >> =>
        /\ 400 * xcom.overall_score[1].num >= 38900 * xcom.overall_score[1].den
        /\ xcom.overall_score[1].num <= 100 * xcom.overall_score[1].den
    /\ xcom.grade # << >> => xcom.grade[1] \in {"A+ (Excellent)", "A (Very Good)"}

\* Every dimension has a violation: the overall score is 97.25, grade A.
C28_Witness ==
    /\ task["aggregate_quality_score"] = "success"
    /\ xcom.overall_score = << Score(389, 4) >>
    /\ xcom.grade = << "A (Very Good)" >>

\* C25: when refresh_all_aggregates has returned, every table of
\* SQL_QUERIES was attempted whenever the connection was opened
\* (success_count + fail_count = 4), True was returned exactly when the
\* connection was opened and no refresh failed, and the connection it
\* opened is closed.
C25_EveryTableAttempted ==
    refresh_ret # "none" =>
        /\ refreshConn # "none" =>
            /\ nextTable = Len(SQL_QUERIES) + 1
            /\ success_count + fail_count = Len(SQL_QUERIES)
        /\ refresh_ret = "True" <=> (refreshConn # "none" /\ fail_count = 0)
        /\ refreshConn \in {"none", "closed"}

\* The calls of load_csv_to_table that ended in the way how.
Ended(how) == { i \in 1..Len(loads) : loads[i].how = how }

\* C26: load_csv_to_table is all-or-nothing.  While the chunks are being
\* inserted nothing is committed, and after a call whose insert of a chunk
\* failed the table holds exactly the rows it had before the call.
C26_AllOrNothing ==
    /\ txn # << >> => target = before
    /\ \A i \in Ended("insert_failed") : loads[i].after = loads[i].before
    /\ (loads # << >> /\ txn = << >> /\ loads[Len(loads)].how = "insert_failed")
        => target = loads[Len(loads)].before

\* The second chunk failed after the first one had changed rows inside the
\* transaction.
C26_Witness ==
    /\ txn = << >>
    /\ loads # << >>
    /\ loads[Len(loads)].how = "insert_failed"
    /\ chunk_num = 1
    /\ InsertChunk(target, Chunk(csv_file, 1), table_name) # target

\* C27: loading the same CSV again is idempotent.  A load that returns
\* after an earlier load of the CSV returned adds no row, returns 0 and
\* leaves the content of the earlier load; no load removes a row; no load
\* changes an existing order.
C27_ReloadIdempotent ==
    /\ \A i, j \in Ended("returned") :
        i < j => (loads[j].added = 0 /\ loads[j].after = loads[i].after)
    /\ \A i \in 1..Len(loads) : \A k \in LoadIds :
        loads[i].before[k] # "absent" =>
            /\ loads[i].after[k] # "absent"
            /\ table_name = "orders" => loads[i].after[k] = loads[i].before[k]

\* Two loads of a CSV returned; the first one added a row to a table that
\* held another row, which the CSV carries with other data.
C27_Witness ==
    /\ Ended("returned") = {1, 2}
    /\ loads[1].added = 1
    /\ \E i \in 1..Len(csv_file) :
        /\ loads[1].before[csv_file[i].id] # "absent"
        /\ loads[1].before[csv_file[i].id] # csv_file[i].data

\* The checks of the detector that ran last which count something on the
\* store, and the issues that detector contributed to all_issues.
DirtyChecks(detector) ==
    CASE detector = "detect_null_values" ->
            { i \in 1..Len(NullChecks) : reportStore.nulls[i] # "none" }
      [] detector = "detect_duplicates" -> reportStore.dups
      [] detector = "detect_data_quality_issues" -> reportStore.rules
      [] OTHER -> {}

IssuesOf(detector) ==
    { allIssues[j].check : j \in { k \in 1..Len(allIssues) :
                                      allIssues[k].detector = detector } }

WithSeverity(sev) == { j \in 1..Len(allIssues) : allIssues[j].severity = sev }

\* C29: the detectors of generate_html swallow their failures.  The issues
\* of the detector that ran last are those of the checks whose count it
\* read before the failure and found > 0 (none when its first query
\* failed); every issue in all_issues is for a count > 0; once
\* get_table_stats returned, generate_html does not raise; and the score
\* of the page is that of the partial list, 100 when the list is empty.
C29_DetectorsSwallow ==
    /\ IssuesOf(lastRead.detector) \subseteq
            (DirtyChecks(lastRead.detector) \cap (1..lastRead.upTo))
    /\ \A i \in DirtyChecks(lastRead.detector) :
            i < lastRead.upTo => i \in IssuesOf(lastRead.detector)
    /\ \A j \in 1..Len(allIssues) :
            allIssues[j].check \in DirtyChecks(allIssues[j].detector)
    /\ html.status = "raised" => lastRead.detector = "none"
    /\ reportPc = "done" => html.status \in {"raised", "completed"}
    /\ html.status = "completed" =>
        /\ html.score = Max(0, 100 - 5 * Cardinality(WithSeverity("CRITICAL"))
                                   - 2 * Cardinality(WithSeverity("WARNING")))
        /\ allIssues = << >> => html.score = 100

\* The page was completed although the last issue detector failed before
\* it reached a rule with a count > 0, with the issue of an earlier
\* detector in the list.
C29_Witness ==
    /\ html.status = "completed"
    /\ lastRead.detector = "detect_data_quality_issues"
    /\ \E i \in reportStore.rules : i > lastRead.upTo
    /\ allIssues # << >>
    /\ html.score < 100

====
